---- MODULE Spec2Model ----
(***************************************************************************)
(* A model of fakegrid: the filter compiler (Fakegrid._apply_operator,     *)
(* src/fakegrid/fakegrid.py) with the SQL three-valued evaluation of the   *)
(* predicates it builds, and the schema relationship resolver              *)
(* (ShotgridSchema._resolve_reverses / _resolve_connections,               *)
(* src/fakegrid/schema.py).                                                *)
(***************************************************************************)
EXTENDS Integers, Sequences, FiniteSets, TLC

VARIABLES
    \* ---- filter compiler ----
    pc,        \* "start" | "compiled" | "done" | "failed"
    ftype,     \* the field type of the queried entity's field sg_f
    query,     \* the leaf filter: [field |-> path tokens, op |-> operator, value |-> values]
    row,       \* the row of the queried entity the predicate is evaluated on
    db,        \* the other tables: table name -> sequence of rows
    clk,       \* the successive readings of datetime.utcnow() taken while compiling
    now_fn,    \* the injected clock, Fakegrid._now_function
    compiled,  \* the result of _apply_operator: a predicate or the exception raised
    matched,   \* whether the executed query returned the row
    fields,    \* the return fields asked of find(): a list of paths
    retired_only, \* the retired_only argument of find()
    result,    \* the keys of the records find() returns, in order
    \* ---- backends: FieldPath ----
    path,      \* the tokens of the field path given to FieldPath.from_string
    field_path, \* what from_string returned or raised
    \* ---- relationship resolver ----
    rpc,       \* the resolver stage that runs next
    raw,       \* the raw input: schema_read() fields and the reload_schema hints
    schema,    \* the ShotgridSchema being resolved
    warnings,  \* the warnings the validation pass of from_connection printed
    \* ---- create ----
    created,   \* the ids of the rows of the entity created so far, in order
    conn_rows, \* the rows of the connection table of the multi-entity field
    data,      \* the data of the last create(): the id, or None, and the new links
    decision   \* what the last create() did with the connection rows, or the exception

fvars == <<pc, ftype, query, row, db, clk, now_fn, compiled, matched, fields, retired_only,
           result>>
pvars == <<path, field_path>>
rvars == <<rpc, raw, schema, warnings>>
cvars == <<created, conn_rows, data, decision>>
vars == <<pc, ftype, query, row, db, clk, now_fn, compiled, matched, fields, retired_only,
          result, path, field_path, rpc, raw, schema, warnings, created, conn_rows,
          data, decision>>

\* No create() is under way.
CreateIdle == created = <<>> /\ conn_rows = <<>> /\ data = <<>> /\ decision = <<>>

(***************************************************************************)
(* Bounds of the model.                                                    *)
(***************************************************************************)
TicksPerHour == 2      \* clock resolution: timestamps are counted in ticks
MaxClockDrift == 1     \* ticks the wall clock may advance between two reads
MaxLinks == 2          \* connection rows in the connection table

(***************************************************************************)
(* Sequence helpers.                                                       *)
(***************************************************************************)
Range(s) == {s[i] : i \in 1..Len(s)}

Contains(s, x) == \E i \in 1..Len(s) : s[i] = x

IsPrefix(p, s) == Len(p) <= Len(s) /\ SubSeq(s, 1, Len(p)) = p

IsSuffix(p, s) == Len(p) <= Len(s) /\ SubSeq(s, Len(s) - Len(p) + 1, Len(s)) = p

IsInfix(p, s) == \E i \in 0..(Len(s) - Len(p)) : SubSeq(s, i + 1, i + Len(p)) = p

(***************************************************************************)
(* FieldType (schema.py 343-371), by its enum value.                       *)
(***************************************************************************)
FieldType ==
    {"text", "float", "multi_entity", "number", "addressing", "checkbox",
     "color", "currency", "date", "date_time", "duration", "entity",
     "footage", "image", "list", "password", "percent", "serializable",
     "status_list", "summary", "tag_list", "timecode", "url", "entity_type",
     "pivot_column", "uuid", "jsonb", "calculated"}

\* The operators of the filter grammar (filters.py FilterOperator), plus the
\* one the test suite uses as an unknown operator and tag_list's "name_id".
Operators ==
    {"is", "is_not", "contains", "not_contains", "starts_with", "ends_with",
     "greater_than", "less_than", "between", "not_between", "in", "not_in",
     "in_last", "not_in_last", "in_next", "not_in_next", "in_calendar_day",
     "in_calendar_week", "in_calendar_month", "in_calendar_year", "type_is",
     "type_is_not", "name_contains", "name_not_contains", "name_is",
     "name_starts_with", "name_ends_with", "name_id", "not_an_operator"}

NumericOps == <<"is", "is_not", "greater_than", "less_than", "between", "in", "not_in">>
NumericOpsNB == <<"is", "is_not", "less_than", "greater_than", "between",
                  "not_between", "in", "not_in">>
DateOps == <<"is", "is_not", "greater_than", "less_than", "in_last", "not_in_last",
             "in_next", "not_in_next", "in_calendar_day", "in_calendar_week",
             "in_calendar_month", "in_calendar_year", "between", "in", "not_in">>
EntityOps == <<"is", "is_not", "type_is", "type_is_not", "name_contains",
               "name_not_contains", "name_is", "in", "not_in">>

\* The types that have an entry in ALLOWED_OPERATIONS_BY_FIELD_TYPE.
TypesWithAllowList ==
    FieldType \ {"entity_type", "pivot_column", "uuid", "jsonb", "calculated"}

\* ALLOWED_OPERATIONS_BY_FIELD_TYPE (schema.py 528-681).
ALLOWED_OPERATIONS_BY_FIELD_TYPE(t) ==
    CASE t = "text" -> <<"is", "is_not", "contains", "not_contains", "starts_with",
                         "ends_with", "in", "not_in">>
      [] t = "float" -> NumericOps
      [] t = "multi_entity" -> EntityOps
      [] t = "number" -> NumericOpsNB
      [] t = "addressing" -> <<"is", "is_not", "contains", "not_contains", "in",
                               "type_is", "type_is_not", "name_contains",
                               "name_not_contains", "name_starts_with",
                               "name_ends_with">>
      [] t = "checkbox" -> <<"is", "is_not">>
      [] t = "color" -> <<"is", "is_not", "in", "not_in">>
      [] t = "currency" -> NumericOpsNB
      [] t = "date" -> DateOps
      [] t = "date_time" -> DateOps
      [] t = "duration" -> NumericOps
      [] t = "entity" -> EntityOps
      [] t = "footage" -> <<"is", "is_not">>
      [] t = "image" -> <<"is", "is_not">>
      [] t = "list" -> <<"is", "is_not", "in", "not_in">>
      [] t = "password" -> <<>>
      [] t = "percent" -> NumericOps
      [] t = "serializable" -> <<>>
      [] t = "status_list" -> <<"is", "is_not", "in", "not_in">>
      [] t = "summary" -> <<>>
      [] t = "tag_list" -> <<"is", "is_not", "name_contains", "name_not_contains",
                             "name_id">>
      [] t = "timecode" -> NumericOps
      [] t = "url" -> <<>>

\* negative_operators (fakegrid.py 458-467): the positive counterpart.
IsNegative(op) ==
    op \in {"is_not", "not_in", "not_contains", "not_between", "type_is_not",
            "name_not_contains", "not_in_next", "not_in_last"}

negative_operators(op) ==
    CASE op = "is_not" -> "is"
      [] op = "not_in" -> "in"
      [] op = "not_contains" -> "contains"
      [] op = "not_between" -> "between"
      [] op = "type_is_not" -> "type_is"
      [] op = "name_not_contains" -> "name_contains"
      [] op = "not_in_next" -> "in_next"
      [] op = "not_in_last" -> "in_last"

\* The link-capable field types (schema.py 701-706, 1106-1111).
LinkTypes == {"entity", "multi_entity", "addressing", "tag_list"}

\* models.py 60-96: the field types schema_to_models gives a column (or, for
\* an entity field, a column_property) of the field's own name.
IGNORED_TYPES == {"pivot_column", "calculated", "summary", "jsonb"}

HasColumn(t) ==
    /\ t \notin IGNORED_TYPES
    /\ t \notin {"multi_entity", "addressing", "tag_list"}

(***************************************************************************)
(* Names.  An api_name is a Python str; the code computes on its           *)
(* characters (snake_case, endswith, startswith, f-strings), so a name is  *)
(* the sequence of its characters.  nm holds the names the model uses:     *)
(* entity types, api_names, the literals of the code and the time units.   *)
(***************************************************************************)
nm ==
    [Shot |-> <<"S", "h", "o", "t">>,
     Asset |-> <<"A", "s", "s", "e", "t">>,
     Task |-> <<"T", "a", "s", "k">>,
     Nope |-> <<"N", "o", "p", "e">>,
     id |-> <<"i", "d">>,
     name |-> <<"n", "a", "m", "e">>,
     title |-> <<"t", "i", "t", "l", "e">>,
     code |-> <<"c", "o", "d", "e">>,
     content |-> <<"c", "o", "n", "t", "e", "n", "t">>,
     sg_f |-> <<"s", "g", "_", "f">>,
     assets |-> <<"a", "s", "s", "e", "t", "s">>,
     tasks |-> <<"t", "a", "s", "k", "s">>,
     entity |-> <<"e", "n", "t", "i", "t", "y">>,
     shot |-> <<"s", "h", "o", "t">>,
     nope |-> <<"n", "o", "p", "e">>,
     linked_entity |-> <<"l", "i", "n", "k", "e", "d", "_", "e", "n", "t", "i", "t", "y">>,
     self |-> <<"{", "s", "e", "l", "f", "}">>,
     Connection |-> <<"C", "o", "n", "n", "e", "c", "t", "i", "o", "n">>,
     sg_ |-> <<"s", "g", "_">>,
     fakegrid |-> <<"f", "a", "k", "e", "g", "r", "i", "d">>,
     source_ |-> <<"s", "o", "u", "r", "c", "e", "_">>,
     HumanUser |-> <<"H", "u", "m", "a", "n", "U", "s", "e", "r">>,
     Project |-> <<"P", "r", "o", "j", "e", "c", "t">>,
     AssetShotConnection |-> <<"A", "s", "s", "e", "t", "S", "h", "o", "t", "C", "o", "n",
                               "n", "e", "c", "t", "i", "o", "n">>,
     asset |-> <<"a", "s", "s", "e", "t">>,
     projects |-> <<"p", "r", "o", "j", "e", "c", "t", "s">>,
     Wildcard |-> <<"_">>,
     shots |-> <<"s", "h", "o", "t", "s">>,
     users |-> <<"u", "s", "e", "r", "s">>,
     tags |-> <<"t", "a", "g", "s">>,
     parents |-> <<"p", "a", "r", "e", "n", "t", "s">>,
     sg_r |-> <<"s", "g", "_", "r">>,
     value |-> <<"v", "a", "l", "u", "e">>,
     editable |-> <<"e", "d", "i", "t", "a", "b", "l", "e">>,
     HOUR |-> <<"H", "O", "U", "R">>,
     DAY |-> <<"D", "A", "Y">>,
     WEEK |-> <<"W", "E", "E", "K">>,
     MONTH |-> <<"M", "O", "N", "T", "H">>,
     YEAR |-> <<"Y", "E", "A", "R">>,
     MINUTE |-> <<"M", "I", "N", "U", "T", "E">>,
     is_retired |-> <<"i", "s", "_", "r", "e", "t", "i", "r", "e", "d">>,
     type |-> <<"t", "y", "p", "e">>]

(***************************************************************************)
(* str methods on names.                                                   *)
(***************************************************************************)
UpperChars ==
    <<"A", "B", "C", "D", "E", "F", "G", "H", "I", "J", "K", "L", "M",
      "N", "O", "P", "Q", "R", "S", "T", "U", "V", "W", "X", "Y", "Z">>
LowerChars ==
    <<"a", "b", "c", "d", "e", "f", "g", "h", "i", "j", "k", "l", "m",
      "n", "o", "p", "q", "r", "s", "t", "u", "v", "w", "x", "y", "z">>

IndexIn(s, c) == CHOOSE i \in 1..Len(s) : s[i] = c

isupper(c) == Contains(UpperChars, c)
lower(c) == IF isupper(c) THEN LowerChars[IndexIn(UpperChars, c)] ELSE c
upper(c) == IF Contains(LowerChars, c) THEN UpperChars[IndexIn(LowerChars, c)] ELSE c

RECURSIVE Flatten(_)
Flatten(ss) == IF ss = <<>> THEN <<>> ELSE Head(ss) \o Flatten(Tail(ss))

RECURSIVE lstrip(_, _)
lstrip(s, c) == IF s # <<>> /\ Head(s) = c THEN lstrip(Tail(s), c) ELSE s

\* str.split(sep) for a one-character separator: always at least one part.
RECURSIVE split(_, _)
split(s, sep) ==
    IF ~Contains(s, sep) THEN <<s>>
    ELSE LET i == CHOOSE j \in 1..Len(s) :
                      s[j] = sep /\ \A k \in 1..(j - 1) : s[k] # sep
         IN <<SubSeq(s, 1, i - 1)>> \o split(SubSeq(s, i + 1, Len(s)), sep)

\* str.capitalize(): first character upper case, the rest lower case.
capitalize(s) ==
    [i \in 1..Len(s) |-> IF i = 1 THEN upper(s[i]) ELSE lower(s[i])]

\* schema.py 1202-1203
snake_case(name) ==
    lstrip(Flatten([i \in 1..Len(name) |->
                       IF isupper(name[i]) THEN <<"_", lower(name[i])>>
                       ELSE <<name[i]>>]), "_")

\* schema.py 1206-1207
camel_case(name) ==
    LET parts == split(name, "_")
    IN Flatten([i \in 1..Len(parts) |-> capitalize(parts[i])])

endswith(s, suffix) == IsSuffix(suffix, s)
startswith(s, prefix) == IsPrefix(prefix, s)

(***************************************************************************)
(* The schema model: ShotgridField, ShotgridEntity, ShotgridSchema         *)
(* (schema.py 684-828).  A reference to a field is <<entity, field>>, None *)
(* is <<>>; parent_of is a list, None is the empty list (the code never    *)
(* makes an empty one).  A dict is its key order and its mapping.          *)
(***************************************************************************)
None == <<>>

ShotgridField(e, n, t, vt) ==
    [entity |-> e, api_name |-> n, field_type |-> t, valid_types |-> vt,
     parent_of |-> <<>>, reverse_of |-> None, connection_entity |-> None,
     one_sided |-> FALSE]

ShotgridEntity(n, forder, flds, real) ==
    [api_name |-> n, forder |-> forder, fields |-> flds, real |-> real]

\* entity.fields.values(), in dict order
FieldsOf(sch, e) ==
    [i \in 1..Len(sch.ent[e].forder) |-> sch.ent[e].fields[sch.ent[e].forder[i]]]

HasEntity(sch, e) == e \in DOMAIN sch.ent
HasField(sch, e, f) == HasEntity(sch, e) /\ f \in DOMAIN sch.ent[e].fields
FieldAt(sch, ref) == sch.ent[ref[1]].fields[ref[2]]

\* ShotgridField.connection_query_target_field (schema.py 698-721): the
\* api_name of the field to query through a connection row, or None.
connection_query_target_field(sch, fld) ==
    IF fld.field_type \notin {"multi_entity", "entity", "addressing", "tag_list"}
    THEN None
    ELSE IF ~endswith(fld.entity, nm.Connection)
    THEN (IF fld.field_type # "multi_entity" THEN None ELSE fld.reverse_of)
    ELSE LET fs == FieldsOf(sch, fld.entity)
             possible_targets ==
                 SelectSeq(fs, LAMBDA f : /\ f.field_type = "entity"
                                           /\ f # fld
                                           /\ ~startswith(f.api_name, nm.sg_))
         IN IF possible_targets = <<>> THEN None
            ELSE <<fld.entity, possible_targets[1].api_name>>

\* ShotgridEntity.name_field (schema.py 813-823)
name_field(sch, e) ==
    LET valid_name_fields == <<nm.code, nm.name, nm.title, nm.content>>
        present == SelectSeq(valid_name_fields, LAMBDA f : HasField(sch, e, f))
    IN IF present = <<>> THEN None ELSE present[1]

\* A name made of the owning entity alone.
connection_entity_name_per_entity(e, f) ==
    nm.fakegrid \o <<"_">> \o e \o <<"_">> \o nm.Connection

\* schema.py 948-950: the name of the connection entity synthesized for a
\* field
connection_entity_name(e, f) ==
    nm.fakegrid \o <<"_">> \o e \o <<"_">> \o f \o <<"_">> \o nm.Connection

(***************************************************************************)
(* The schema the filter compiler runs against: the resolved schema of a   *)
(* site with Shot, Asset and Task.  Shot.sg_f is the field under test, of  *)
(* field type t; Shot.assets goes through a synthesized connection entity  *)
(* and Shot.tasks is the reverse of the single-entity field Task.entity.   *)
(***************************************************************************)
N_ShotAssetsConn == connection_entity_name(nm.Shot, nm.assets)

FilterSchema(t) ==
    LET number(e, n) == ShotgridField(e, n, "number", <<>>)
        text(e, n) == ShotgridField(e, n, "text", <<>>)
        endpoint(e, n, vt) ==
            [ShotgridField(e, n, "entity", vt) EXCEPT !.one_sided = TRUE]
    IN [order |-> <<nm.Shot, nm.Asset, nm.Task, N_ShotAssetsConn>>,
        ent |->
          (nm.Shot :> ShotgridEntity(nm.Shot, <<nm.id, nm.code, nm.sg_f, nm.assets, nm.tasks>>,
              (nm.id :> number(nm.Shot, nm.id)) @@
              (nm.code :> text(nm.Shot, nm.code)) @@
              (nm.sg_f :> ShotgridField(nm.Shot, nm.sg_f, t,
                            IF t \in LinkTypes THEN <<nm.Asset>> ELSE <<>>)) @@
              (nm.assets :> [ShotgridField(nm.Shot, nm.assets, "multi_entity", <<nm.Asset>>)
                              EXCEPT !.connection_entity = <<N_ShotAssetsConn, nm.shot>>]) @@
              (nm.tasks :> [ShotgridField(nm.Shot, nm.tasks, "multi_entity", <<nm.Task>>)
                              EXCEPT !.reverse_of = <<nm.Task, nm.entity>>]),
              TRUE)) @@
          (nm.Asset :> ShotgridEntity(nm.Asset, <<nm.id, nm.code>>,
              (nm.id :> number(nm.Asset, nm.id)) @@
              (nm.code :> text(nm.Asset, nm.code)),
              TRUE)) @@
          (nm.Task :> ShotgridEntity(nm.Task, <<nm.id, nm.content, nm.entity>>,
              (nm.id :> number(nm.Task, nm.id)) @@
              (nm.content :> text(nm.Task, nm.content)) @@
              (nm.entity :> [ShotgridField(nm.Task, nm.entity, "entity", <<nm.Shot, nm.Asset>>)
                              EXCEPT !.parent_of = <<<<nm.Shot, nm.tasks>>>>]),
              TRUE)) @@
          (N_ShotAssetsConn :> ShotgridEntity(N_ShotAssetsConn,
              <<nm.id, nm.shot, nm.linked_entity>>,
              (nm.id :> number(N_ShotAssetsConn, nm.id)) @@
              (nm.shot :> endpoint(N_ShotAssetsConn, nm.shot, <<nm.Shot>>)) @@
              (nm.linked_entity :> endpoint(N_ShotAssetsConn, nm.linked_entity, <<nm.Asset>>)),
              FALSE))]

(***************************************************************************)
(* Python values of a filter.  None, an int (a number, or a datetime as    *)
(* its tick count), a str (its characters), an entity dict {id, type}, a   *)
(* list.  A cell of a table is <<>> (NULL) or <<v>>.                       *)
(***************************************************************************)
PyNone == [t |-> "none"]
PyInt(n) == [t |-> "int", v |-> n]
PyStr(cs) == [t |-> "str", v |-> cs]
PyDict(id, type) == [t |-> "dict", id |-> id, type |-> type]
PyList(items) == [t |-> "list", v |-> items]

isNone(v) == v.t = "none"
isList(v) == v.t = "list"

NULL == <<>>
Cell(x) == <<x>>

Digits == <<"0", "1", "2", "3", "4", "5", "6", "7", "8", "9">>

\* str(value) for the values of the model: a str is itself, a small int is
\* its digit.
str(v) == IF v.t = "int" /\ v.v \in 0..9 THEN PyStr(<<Digits[v.v + 1]>>) ELSE v

\* ShotgridField.to_database (schema.py 757-802).  A datetime value is of
\* the isinstance(value, datetime.datetime) branch for a date field.
RECURSIVE to_database(_, _)
to_database(t, value) ==
    IF isNone(value) THEN value
    ELSE IF isList(value)
    THEN PyList([i \in 1..Len(value.v) |-> to_database(t, value.v[i])])
    ELSE IF t = "text" THEN str(value)
    ELSE value

(***************************************************************************)
(* The predicates _apply_operator builds (SQLAlchemy clause elements).     *)
(* A column is named by the alias it belongs to (its nesting depth: 1 is   *)
(* the queried entity, each EXISTS adds one), a field and a part: "val"    *)
(* for a plain column, "id" / "type" / "name" for the three columns of an  *)
(* entity field.  literal_column is a constant.                            *)
(***************************************************************************)
Col(a, f, part) == [lit |-> FALSE, a |-> a, f |-> f, part |-> part, v |-> NULL]
Literal(x) == [lit |-> TRUE, a |-> 0, f |-> <<>>, part |-> "val", v |-> x]

and_(args) == [k |-> "and", args |-> args]
or_(args) == [k |-> "or", args |-> args]
not_(p) == [k |-> "not", arg |-> p]
IsNull(c) == [k |-> "isnull", col |-> c]
IsNotNull(c) == [k |-> "notnull", col |-> c]
Cmp(op, c, x) == [k |-> "cmp", op |-> op, col |-> c, v |-> x]
ColEq(c1, c2) == [k |-> "coleq", col |-> c1, col2 |-> c2]
Between(c, lo, hi) == [k |-> "between", col |-> c, lo |-> lo, hi |-> hi]
Like(c, mode, x) == [k |-> "like", col |-> c, mode |-> mode, v |-> x]
Exists(table, where) == [k |-> "exists", table |-> table, where |-> where]

\* column == value: SQLAlchemy renders a comparison with None as IS NULL.
Eq(c, value) == IF isNone(value) THEN IsNull(c) ELSE Cmp("eq", c, value.v)

\* What a compilation ends with: a predicate, or the exception raised.
Ok(p) == [ok |-> TRUE, pred |-> p, err |-> ""]
Raise(e) == [ok |-> FALSE, pred |-> <<>>, err |-> e]

UnsupportedOperator == "Fault: data type doesn't support relation"
DoesNotExist == "Fault: doesn't exist"
NotAValidRelation == "Fault: is not a valid relation"

(***************************************************************************)
(* Time.  A datetime is its number of ticks since 0001-01-01 00:00 (the    *)
(* proleptic Gregorian ordinal of datetime.toordinal(), day 1, counted in  *)
(* ticks); the calendar arithmetic is that of Python's datetime and        *)
(* calendar modules.                                                       *)
(***************************************************************************)
TicksPerDay == 24 * TicksPerHour

\* datetime.timedelta(hours=h), (days=d), (weeks=w)
timedelta_hours(h) == h * TicksPerHour
timedelta_days(d) == d * TicksPerDay
timedelta_weeks(w) == w * 7 * TicksPerDay

\* The calendar years the model's datetimes fall in.
Years == 2019..2023

isleap(y) == y % 4 = 0 /\ (y % 100 # 0 \/ y % 400 = 0)

\* calendar.monthrange(year, month)[1]
monthrange(y, m) ==
    IF m = 2 THEN (IF isleap(y) THEN 29 ELSE 28)
    ELSE IF m \in {4, 6, 9, 11} THEN 30 ELSE 31

days_before_year(y) ==
    (y - 1) * 365 + ((y - 1) \div 4) - ((y - 1) \div 100) + ((y - 1) \div 400)

RECURSIVE days_before_month(_, _)
days_before_month(y, m) ==
    IF m = 1 THEN 0 ELSE days_before_month(y, m - 1) + monthrange(y, m - 1)

\* datetime.datetime(y, m, d) + tod ticks into the day
datetime(y, m, d, tod) ==
    (days_before_year(y) + days_before_month(y, m) + d - 1) * TicksPerDay + tod

OrdinalDay(t) == t \div TicksPerDay
year(t) ==
    CHOOSE y \in Years :
        /\ days_before_year(y) <= OrdinalDay(t)
        /\ OrdinalDay(t) < days_before_year(y + 1)
month(t) ==
    CHOOSE m \in 1..12 :
        /\ days_before_month(year(t), m) <= OrdinalDay(t) - days_before_year(year(t))
        /\ OrdinalDay(t) - days_before_year(year(t))
              < days_before_month(year(t), m) + monthrange(year(t), m)
\* datetime.weekday(): Monday is 0.  0001-01-01 is a Monday.
weekday(t) == OrdinalDay(t) % 7

\* dt.replace(hour=0, minute=0, second=0, microsecond=0) and
\* dt.replace(hour=23, minute=59, second=59, microsecond=999999): the first
\* and the last instant of dt's day.
start_of(t) == OrdinalDay(t) * TicksPerDay
end_of(t) == OrdinalDay(t) * TicksPerDay + TicksPerDay - 1

TimeUnits == {nm.HOUR, nm.DAY, nm.WEEK, nm.MONTH, nm.YEAR}

\* fakegrid.py 740-749 (and 766-775): the amount converted to hours
HoursOf(amount, unit) ==
    CASE unit = nm.DAY -> amount * 24
      [] unit = nm.WEEK -> amount * 24 * 7
      [] unit = nm.MONTH -> amount * 24 * 30
      [] unit = nm.YEAR -> amount * 24 * 365
      [] OTHER -> amount

(***************************************************************************)
(* Fakegrid._apply_operator (fakegrid.py 451-843).  model is the mapped    *)
(* class or alias the field is read from: its entity and its alias depth.  *)
(* clock is the sequence of values datetime.utcnow() returns, in the order *)
(* of the calls.                                                           *)
(***************************************************************************)
\* `is` compiled the way the scalar branch compiles it (fakegrid.py 713)
entity_is_as_scalar(id_field, type_field, v) ==
    IF isNone(v) THEN and_(<<IsNull(id_field), IsNotNull(id_field)>>)
    ELSE and_(<<Cmp("eq", id_field, v.id), IsNotNull(id_field)>>)

\* fakegrid.py 677-685: `is` on an entity field
entity_is(id_field, type_field, v) ==
    IF isNone(v) THEN and_(<<IsNull(id_field), IsNull(type_field)>>)
    ELSE and_(<<Cmp("eq", id_field, v.id), Cmp("eq", type_field, v.type),
                IsNotNull(id_field), IsNotNull(type_field)>>)

\* fakegrid.py 664-709: the leaf on an entity field, or on "{self}"
apply_entity_leaf(sch, has_schema, field, model, operator, value) ==
    LET a == model.a
        nf == name_field(sch, model.ent)
        id_field == IF has_schema THEN Col(a, field, "id") ELSE Col(a, nm.id, "val")
        type_field == IF has_schema THEN Col(a, field, "type")
                      ELSE Literal(Cell(model.ent))
        name_col == IF has_schema THEN Col(a, field, "name")
                    ELSE IF nf # None THEN Col(a, nf, "val") ELSE Literal(NULL)
        link(i) == IF isNone(i) THEN and_(<<IsNull(id_field), IsNull(type_field)>>)
                   ELSE and_(<<Cmp("eq", id_field, i.id), Cmp("eq", type_field, i.type)>>)
    IN CASE operator = "is" -> Ok(entity_is(id_field, type_field, value[1]))
         [] operator = "type_is" ->
              IF isNone(value[1]) THEN Ok(IsNull(type_field))
              ELSE Ok(Cmp("eq", type_field, value[1].v))
         [] operator = "name_contains" ->
              Ok(and_(<<Like(name_col, "contains", value[1].v), IsNotNull(name_col)>>))
         [] operator = "name_is" ->
              Ok(and_(<<Eq(name_col, value[1]), IsNotNull(name_col)>>))
         [] operator = "in" ->
              Ok(and_(<<or_([i \in 1..Len(value[1].v) |-> link(value[1].v[i])]),
                        IsNotNull(id_field), IsNotNull(type_field)>>))
         [] OTHER -> Raise("returns None")

\* fakegrid.py 730-782: in_last and in_next
apply_relative(sql_field, operator, value, clock) ==
    LET amount == value[1]
        unit == value[2]
        hours == HoursOf(amount.v, unit.v)
    IN IF amount.t # "int"
       THEN Raise("Fault: 'in_last' 'relation' expects an integer")
       ELSE IF unit.t # "str" \/ unit.v \notin TimeUnits
       THEN Raise("Fault: 'in_last' 'relation' expects a unit of time")
       ELSE IF operator = "in_last"
       THEN Ok(and_(<<Cmp("ge", sql_field, clock[1] - timedelta_hours(hours)),
                      Cmp("le", sql_field, clock[2]),
                      IsNotNull(sql_field)>>))
       ELSE Ok(and_(<<Cmp("le", sql_field, clock[1] + timedelta_hours(hours)),
                      Cmp("ge", sql_field, clock[2]),
                      IsNotNull(sql_field)>>))

CompareOps == {"is", "in", "less_than", "greater_than", "contains", "starts_with",
                "ends_with", "between"}

\* the comparisons without their `sql_field != None` conjunct
apply_compare_unguarded(sql_field, operator, value) ==
    CASE operator = "is" -> Eq(sql_field, value[1])
      [] operator = "in" ->
           or_([i \in 1..Len(value[1].v) |-> Eq(sql_field, value[1].v[i])])
      [] operator = "less_than" -> Cmp("lt", sql_field, value[1].v)
      [] operator = "greater_than" -> Cmp("gt", sql_field, value[1].v)
      [] operator = "contains" -> Like(sql_field, "contains", value[1].v)
      [] operator = "starts_with" -> Like(sql_field, "starts_with", value[1].v)
      [] operator = "ends_with" -> Like(sql_field, "ends_with", value[1].v)
      [] operator = "between" -> Between(sql_field, value[1].v, value[2].v)

\* fakegrid.py 712-729: the comparison operators
apply_compare(sql_field, operator, value) ==
    CASE operator = "is" ->
           and_(<<Eq(sql_field, value[1]), IsNotNull(sql_field)>>)
      [] operator = "in" ->
           and_(<<or_([i \in 1..Len(value[1].v) |-> Eq(sql_field, value[1].v[i])]),
                  IsNotNull(sql_field)>>)
      [] operator = "less_than" ->
           and_(<<Cmp("lt", sql_field, value[1].v), IsNotNull(sql_field)>>)
      [] operator = "greater_than" ->
           and_(<<Cmp("gt", sql_field, value[1].v), IsNotNull(sql_field)>>)
      [] operator = "contains" ->
           and_(<<Like(sql_field, "contains", value[1].v), IsNotNull(sql_field)>>)
      [] operator = "starts_with" ->
           and_(<<Like(sql_field, "starts_with", value[1].v), IsNotNull(sql_field)>>)
      [] operator = "ends_with" ->
           and_(<<Like(sql_field, "ends_with", value[1].v), IsNotNull(sql_field)>>)
      [] operator = "between" ->
           and_(<<Between(sql_field, value[1].v, value[2].v), IsNotNull(sql_field)>>)

\* fakegrid.py 710-843: the leaf on a field with a column of its own
apply_scalar_leaf(field, model, operator, value0, clock) ==
    LET sql_field == Col(model.a, field, "val")
        value == IF operator = "between" /\ isList(value0[1]) THEN value0[1].v
                 ELSE value0
    IN CASE operator \in CompareOps -> Ok(apply_compare(sql_field, operator, value))
         [] operator \in {"in_last", "in_next"} ->
              apply_relative(sql_field, operator, value, clock)
         [] operator = "in_calendar_day" ->
              IF value[1].t # "int"
              THEN Raise("Fault: 'in_calendar_day' 'relation' expects an integer")
              ELSE LET day == clock[1] + timedelta_days(value[1].v)
                   IN Ok(and_(<<Between(sql_field, start_of(day), end_of(day)),
                                IsNotNull(sql_field)>>))
         [] operator = "in_calendar_week" ->
              IF value[1].t # "int"
              THEN Raise("Fault: 'in_calendar_week' 'relation' expects an integer")
              ELSE LET week == start_of(clock[1] + timedelta_weeks(value[1].v))
                       start_of_week == week - timedelta_days(weekday(week))
                       end_of_week == start_of_week + timedelta_days(6)
                   IN Ok(and_(<<Between(sql_field, start_of_week, end_of_week),
                                IsNotNull(sql_field)>>))
         [] operator = "in_calendar_month" ->
              IF value[1].t # "int"
              THEN Raise("Fault: 'in_calendar_month' 'relation' expects an integer")
              ELSE LET current_month == month(clock[1])
                       mo == current_month + value[1].v
                   IN IF mo \notin 1..12
                      THEN Raise("ValueError: month must be in 1..12")
                      ELSE LET start_of_month == datetime(year(clock[2]), mo, 1, 0)
                               end_of_month ==
                                   datetime(year(clock[3]), mo, monthrange(mo, mo),
                                            TicksPerDay - 1)
                           IN Ok(and_(<<Between(sql_field, start_of_month, end_of_month),
                                        IsNotNull(sql_field)>>))
         [] OTHER -> Raise("NotImplementedError: Unsupported operator")

\* fakegrid.py 645-843: the leaf on a field that is not of the multi-entity
\* family; field_schema is None for "{self}".
apply_leaf(sch, field, model, operator0, value0, clock) ==
    LET has_schema == HasField(sch, model.ent, field)
        field_schema == sch.ent[model.ent].fields[field]
        field_type == IF has_schema THEN field_schema.field_type ELSE "entity"
        valid_operators == ALLOWED_OPERATIONS_BY_FIELD_TYPE(field_type)
        operator == IF ~isList(value0[1]) /\ operator0 = "in" THEN "is" ELSE operator0
        value == IF has_schema
                 THEN [i \in 1..Len(value0) |-> to_database(field_type, value0[i])]
                 ELSE value0
    IN IF has_schema /\ ~HasColumn(field_type)
       THEN Raise("AttributeError")
       ELSE IF field_type \notin TypesWithAllowList
       THEN Raise("KeyError")
       ELSE IF ~Contains(valid_operators, operator0)
       THEN Raise(UnsupportedOperator)
       ELSE IF field_type = "entity"
       THEN apply_entity_leaf(sch, has_schema, field, model, operator, value)
       ELSE apply_scalar_leaf(field, model, operator, value, clock)

RECURSIVE _apply_operator(_, _, _, _, _, _)

\* the subquery without `conn_model_id == origin_model_id`
connection_exists_unscoped(conn_alias, conn_model_id, conn_model_type, model, inner_where) ==
    Exists(conn_alias.ent,
           and_(<<Cmp("eq", conn_model_type, model.ent), inner_where>>))

\* fakegrid.py 621-642: the EXISTS over the rows of the connection (or of
\* the reverse field's entity) that belong to the queried entity
connection_exists(conn_alias, conn_model_id, conn_model_type, model, inner_where) ==
    Exists(conn_alias.ent,
           and_(<<ColEq(conn_model_id, Col(model.a, nm.id, "val")),
                  Cmp("eq", conn_model_type, model.ent),
                  inner_where>>))

\* fakegrid.py 593-643: a field of the multi-entity family, not dotted
apply_multi(sch, field, model, operator, value, clock) ==
    LET field_schema == sch.ent[model.ent].fields[field]
        connection_entity ==
            IF field_schema.connection_entity # None
            THEN field_schema.connection_entity
            ELSE field_schema.reverse_of
    IN IF connection_entity = None THEN Raise(NotAValidRelation)
       ELSE
         LET conn_alias == [ent |-> connection_entity[1], a |-> model.a + 1]
             conn_field == FieldAt(sch, connection_entity)
             opposite_field == connection_query_target_field(sch, conn_field)
             inner_where ==
                 _apply_operator(sch,
                     IF opposite_field # None THEN <<opposite_field[2]>> ELSE <<nm.self>>,
                     conn_alias, operator, value, clock)
             is_entity == conn_field.field_type = "entity"
             conn_model_id == IF is_entity THEN Col(conn_alias.a, conn_field.api_name, "id")
                              ELSE Col(conn_alias.a, nm.id, "val")
             conn_model_type ==
                 IF is_entity THEN Col(conn_alias.a, conn_field.api_name, "type")
                 ELSE Literal(Cell(conn_field.entity))
         IN IF ~inner_where.ok THEN inner_where
            ELSE Ok(connection_exists(conn_alias, conn_model_id, conn_model_type,
                                      model, inner_where.pred))

\* fakegrid.py 474-587: a dotted field
apply_dotted(sch, field_parts, model, operator, value, clock) ==
    LET next_field == field_parts[1]
        next_entity_type == field_parts[2]
        rest == SubSeq(field_parts, 3, Len(field_parts))
        a == model.a
    IN IF ~HasEntity(sch, next_entity_type) THEN Raise(NotAValidRelation)
       ELSE IF ~HasField(sch, model.ent, next_field) THEN Raise(DoesNotExist)
       ELSE
         LET fld == sch.ent[model.ent].fields[next_field]
         IN IF fld.field_type \notin {"entity", "multi_entity", "addressing", "tag_list"}
            THEN Raise(NotAValidRelation)
            ELSE IF fld.field_type \in {"multi_entity", "addressing", "tag_list"}
            THEN
              LET parents == SelectSeq(fld.parent_of, LAMBDA i : i[1] = next_entity_type)
                  connection_entity ==
                      IF fld.connection_entity # None THEN fld.connection_entity
                      ELSE IF parents # <<>> THEN parents[1]
                      ELSE None
              IN IF connection_entity = None THEN Raise(NotAValidRelation)
                 ELSE
                   LET conn_alias == [ent |-> connection_entity[1], a |-> a + 1]
                       conn_field == FieldAt(sch, connection_entity)
                       opposite_field == connection_query_target_field(sch, conn_field)
                       field == IF opposite_field # None
                                THEN <<opposite_field[2], next_entity_type>> \o rest
                                ELSE rest
                       inner_where ==
                           _apply_operator(sch, field, conn_alias, operator, value, clock)
                   IN IF ~inner_where.ok THEN inner_where
                      ELSE Ok(Exists(conn_alias.ent,
                                and_(<<ColEq(Col(a + 1, conn_field.api_name, "id"),
                                             Col(a, nm.id, "val")),
                                       Cmp("eq", Col(a + 1, conn_field.api_name, "type"),
                                           model.ent),
                                       inner_where.pred>>)))
            ELSE
              LET alias == [ent |-> next_entity_type, a |-> a + 1]
                  inner_where ==
                      _apply_operator(sch, rest, alias, operator, value, clock)
              IN IF ~inner_where.ok THEN inner_where
                 ELSE Ok(and_(<<Exists(alias.ent,
                                  and_(<<ColEq(Col(a, next_field, "id"),
                                               Col(a + 1, nm.id, "val")),
                                         inner_where.pred>>)),
                                Cmp("eq", Col(a, next_field, "type"), next_entity_type)>>))

\* fakegrid.py 451-472 and 589-591: negation, then the three cases.  field
\* is field.split("."); the empty path is the field named "".
_apply_operator(sch, field, model, operator, value, clock) ==
    IF IsNegative(operator)
    THEN LET r == _apply_operator(sch, field, model, negative_operators(operator),
                                  value, clock)
         IN IF r.ok THEN Ok(not_(r.pred)) ELSE r
    ELSE IF Len(field) > 1
    THEN apply_dotted(sch, field, model, operator, value, clock)
    ELSE LET f == IF field = <<>> THEN <<>> ELSE field[1]
         IN IF ~HasField(sch, model.ent, f) /\ f # nm.self
            THEN Raise(DoesNotExist)
            ELSE IF HasField(sch, model.ent, f)
                    /\ sch.ent[model.ent].fields[f].field_type
                         \in {"multi_entity", "addressing", "tag_list"}
            THEN apply_multi(sch, f, model, operator, value, clock)
            ELSE apply_leaf(sch, f, model, operator, value, clock)

(***************************************************************************)
(* Fakegrid._build_wheres_and_joins (fakegrid.py 387-449).  A filter is a  *)
(* leaf [field, op, value], a list of filters [list], or a group           *)
(* {filter_operator, filters}.                                             *)
(***************************************************************************)
IsGroup(f) == "filter_operator" \in DOMAIN f
IsFilterList(f) == "list" \in DOMAIN f
Group(filter_operator, filters) == [filter_operator |-> filter_operator, filters |-> filters]
FilterList(filters) == [list |-> filters]

\* every group combined with AND, whatever its filter_operator
combine_always_all(filter_operator, group) ==
    IF Len(group) = 1 THEN Ok(group) ELSE Ok(<<and_(group)>>)

\* fakegrid.py 409-420: the predicates of the children made into one
combine(filter_operator, group) ==
    IF Len(group) = 1 THEN Ok(group)
    ELSE IF filter_operator = "all" THEN Ok(<<and_(group)>>)
    ELSE IF filter_operator = "any" THEN Ok(<<or_(group)>>)
    ELSE Raise("NotImplementedError: Unsupported filter_operator")

RECURSIVE _build_wheres_and_joins(_, _, _)
RECURSIVE build_group(_, _, _, _, _)

\* fakegrid.py 402-408: the loop over the children of a group
build_group(sch, filters, clock, i, group) ==
    IF i > Len(filters) THEN Ok(group)
    ELSE LET r == _build_wheres_and_joins(sch, filters[i], clock)
         IN IF ~r.ok THEN r
            ELSE build_group(sch, filters, clock, i + 1, group \o r.pred)

\* the list of wheres, or the exception raised
_build_wheres_and_joins(sch, filters, clock) ==
    IF IsFilterList(filters) /\ filters.list = <<>> THEN Ok(<<>>)
    ELSE IF IsGroup(filters)
    THEN IF filters.filters = <<>> THEN Ok(<<>>)
         ELSE LET g == build_group(sch, filters.filters, clock, 1, <<>>)
              IN IF ~g.ok THEN g ELSE combine(filters.filter_operator, g.pred)
    ELSE IF IsFilterList(filters)
    THEN _build_wheres_and_joins(sch, Group("all", filters.list), clock)
    ELSE LET r == _apply_operator(sch, filters.field, [ent |-> nm.Shot, a |-> 1],
                                  filters.op, filters.value, clock)
         IN IF r.ok THEN Ok(<<r.pred>>) ELSE r

(***************************************************************************)
(* Fakegrid._resolve_dotted_field and _resolve_fields (fakegrid.py         *)
(* 845-1008): the return fields of find().  A resolved field is the        *)
(* requested path, the entity of the alias it is read from, the attribute  *)
(* read, the entity of the parent alias, and the entities joined.          *)
(***************************************************************************)
Resolved(original, alias, field, parent, joins) ==
    [original |-> original, alias |-> alias, field |-> field, parent |-> parent,
     joins |-> joins]

\* fakegrid.py 920-1006: the loop over the field layers; i is the place of
\* the field token in field_layers
RECURSIVE resolve_layers(_, _, _, _, _, _, _, _)
resolve_layers(sch, field_layers, i, parent_schema, previous_alias, parent_alias, field, joins) ==
    IF i > Len(field_layers)
    THEN Ok(Resolved(field_layers, previous_alias, field, parent_alias, joins))
    ELSE
      LET fld == field_layers[i]
          field_entity_name ==
              IF i + 1 <= Len(field_layers) THEN field_layers[i + 1] ELSE previous_alias
          drilling == i + 2 <= Len(field_layers)
      IN IF ~HasField(sch, parent_schema, fld) THEN Raise("KeyError")
         ELSE
           LET field_schema == FieldAt(sch, <<parent_schema, fld>>)
           IN IF field_schema.field_type = "entity"
              THEN IF ~HasEntity(sch, field_entity_name) THEN Raise("KeyError")
                   ELSE IF drilling
                   THEN resolve_layers(sch, field_layers, i + 2, field_entity_name,
                            field_entity_name, previous_alias, fld,
                            Append(joins, field_entity_name))
                   ELSE resolve_layers(sch, field_layers, i + 2, field_entity_name,
                            previous_alias, parent_alias, fld, joins)
              ELSE IF field_schema.field_type = "multi_entity"
              THEN IF field_schema.connection_entity # None
                   THEN LET conn == field_schema.connection_entity
                            conn_field == FieldAt(sch, conn)
                            conn_opposite_field ==
                                connection_query_target_field(sch, conn_field)
                        IN IF conn_opposite_field = None THEN Raise("AssertionError")
                           ELSE IF ~HasEntity(sch, field_entity_name) THEN Raise("KeyError")
                           ELSE IF drilling
                           THEN resolve_layers(sch, field_layers, i + 2, field_entity_name,
                                    field_entity_name, previous_alias,
                                    conn_opposite_field[2],
                                    joins \o <<conn[1], field_entity_name>>)
                           ELSE resolve_layers(sch, field_layers, i + 2, field_entity_name,
                                    conn[1], previous_alias, conn_opposite_field[2],
                                    Append(joins, conn[1]))
                   ELSE IF field_schema.reverse_of = None THEN Raise("AssertionError")
                   ELSE IF ~HasEntity(sch, field_entity_name) THEN Raise("KeyError")
                   ELSE resolve_layers(sch, field_layers, i + 2, field_entity_name,
                            field_schema.reverse_of[1], previous_alias, nm.id,
                            Append(joins, field_schema.reverse_of[1]))
              ELSE IF ~HasEntity(sch, field_entity_name) THEN Raise("KeyError")
              ELSE resolve_layers(sch, field_layers, i + 2, field_entity_name,
                       previous_alias, parent_alias, fld, joins)

\* fakegrid.py 892-1008; field_layers is field.split(".")
_resolve_dotted_field(sch, model, field_layers) ==
    LET n == Len(field_layers)
        dotted_entity == IF n > 1 THEN field_layers[n - 1] ELSE model
        dotted_field == field_layers[n]
    IN IF ~HasEntity(sch, dotted_entity) THEN Raise("KeyError")
       ELSE IF ~HasField(sch, dotted_entity, dotted_field) THEN Raise(DoesNotExist)
       ELSE IF n = 1 /\ FieldAt(sch, <<dotted_entity, dotted_field>>).field_type
                           \notin {"multi_entity", "addressing", "tag_list"}
       THEN Ok(Resolved(field_layers, model, dotted_field, model, <<>>))
       ELSE resolve_layers(sch, field_layers, 1, model, model, model, dotted_field, <<>>)

\* fakegrid.py 862-871: the return fields that resolve; a Fault drops the
\* field, any other exception ends the find()
RECURSIVE _resolve_fields(_, _, _, _, _)
_resolve_fields(sch, model, flds, i, new_fields) ==
    IF i > Len(flds) THEN Ok(new_fields)
    ELSE LET r == _resolve_dotted_field(sch, model, flds[i])
         IN IF r.ok THEN _resolve_fields(sch, model, flds, i + 1, Append(new_fields, r.pred))
            ELSE IF r.err = DoesNotExist
            THEN _resolve_fields(sch, model, flds, i + 1, new_fields)
            ELSE r

\* getattr(alias, name) on a mapped class
HasAttr(sch, alias, name) ==
    /\ HasField(sch, alias, name)
    /\ HasColumn(FieldAt(sch, <<alias, name>>).field_type)

\* fakegrid.py 260-311: the columns selected, id and type first; the keys
\* of the records returned, or the exception raised
RECURSIVE fields_to_query(_, _, _, _)
fields_to_query(sch, _fields, i, keys) ==
    IF i > Len(_fields) THEN Ok(keys)
    ELSE
      LET f == _fields[i]
          requested_field == f.original
          n == Len(requested_field)
          field_schema ==
              FieldAt(sch, <<IF n > 1 THEN requested_field[n - 1] ELSE nm.Shot,
                             requested_field[n]>>)
      IN IF requested_field \in {<<nm.id>>, <<nm.type>>}
         THEN fields_to_query(sch, _fields, i + 1, keys)
         ELSE IF field_schema.field_type = "multi_entity"
         THEN IF f.field # nm.id /\ ~HasAttr(sch, f.alias, f.field)
              THEN Raise("AttributeError")
              ELSE fields_to_query(sch, _fields, i + 1, Append(keys, requested_field))
         ELSE IF ~HasAttr(sch, f.alias, f.field) THEN Raise("AttributeError")
         ELSE fields_to_query(sch, _fields, i + 1, Append(keys, requested_field))

\* all records are returned with the retired ones
retired_where_ignored(only) == and_(<<>>)

\* fakegrid.py 326-329: retired rows only, or none of them
retired_where(only) == Cmp("eq", Col(1, nm.is_retired, "val"), only)

\* for where in wheres: query = query.where(where)  (fakegrid.py 323-324)
Where(wheres) == IF Len(wheres) = 1 THEN wheres[1] ELSE and_(wheres)

\* fakegrid.py 234-311: find() up to the query it builds
find(sch, filters, flds, clock) ==
    LET f == _resolve_fields(sch, nm.Shot, flds, 1, <<>>)
        w == _build_wheres_and_joins(sch, filters, clock)
        q == fields_to_query(sch, f.pred, 1, <<<<nm.id>>, <<nm.type>>>>)
    IN IF ~f.ok THEN f
       ELSE IF ~w.ok THEN w
       ELSE IF ~q.ok THEN q
       ELSE Ok(Where(w.pred))

(***************************************************************************)
(* Rows and the evaluation of a predicate by the SQL backend, in SQL's     *)
(* three-valued logic: "T", "F" or "U" (NULL).  A WHERE clause keeps the   *)
(* rows whose predicate is "T".                                            *)
(***************************************************************************)
Row(id, cols) == [id |-> id, is_retired |-> FALSE, cols |-> cols]

NoCols == <<>>

\* The three columns of an entity field (models.py 136-146, from_dict).
LinkCols(f, type, id, name_cell) ==
    (<<f, "id">> :> Cell(id)) @@ (<<f, "type">> :> Cell(type)) @@ (<<f, "name">> :> name_cell)

ColValue(r, f, part) ==
    IF f = nm.id /\ part = "val" THEN Cell(r.id)
    ELSE IF f = nm.is_retired /\ part = "val" THEN Cell(r.is_retired)
    ELSE IF <<f, part>> \in DOMAIN r.cols THEN r.cols[<<f, part>>]
    ELSE NULL

CellOf(c, env) == IF c.lit THEN c.v ELSE ColValue(env[c.a], c.f, c.part)

Not3(x) == CASE x = "T" -> "F" [] x = "F" -> "T" [] OTHER -> "U"
And3(xs) == IF \E i \in 1..Len(xs) : xs[i] = "F" THEN "F"
            ELSE IF \E i \in 1..Len(xs) : xs[i] = "U" THEN "U" ELSE "T"
Or3(xs) == IF \E i \in 1..Len(xs) : xs[i] = "T" THEN "T"
           ELSE IF \E i \in 1..Len(xs) : xs[i] = "U" THEN "U" ELSE "F"
Bool3(b) == IF b THEN "T" ELSE "F"

Compare(op, x, y) ==
    CASE op = "eq" -> x = y
      [] op = "lt" -> x < y
      [] op = "gt" -> x > y
      [] op = "le" -> x <= y
      [] op = "ge" -> x >= y

\* column LIKE '%v%', 'v%', '%v' for a v without wildcards
LikeMatch(mode, x, v) ==
    CASE mode = "contains" -> IsInfix(v, x)
      [] mode = "starts_with" -> IsPrefix(v, x)
      [] mode = "ends_with" -> IsSuffix(v, x)

RECURSIVE Eval(_, _, _)
Eval(p, env, tables) ==
    CASE p.k = "and" -> And3([i \in 1..Len(p.args) |-> Eval(p.args[i], env, tables)])
      [] p.k = "or" -> Or3([i \in 1..Len(p.args) |-> Eval(p.args[i], env, tables)])
      [] p.k = "not" -> Not3(Eval(p.arg, env, tables))
      [] p.k = "isnull" -> Bool3(CellOf(p.col, env) = NULL)
      [] p.k = "notnull" -> Bool3(CellOf(p.col, env) # NULL)
      [] p.k = "cmp" ->
           LET c == CellOf(p.col, env)
           IN IF c = NULL THEN "U" ELSE Bool3(Compare(p.op, c[1], p.v))
      [] p.k = "coleq" ->
           LET c1 == CellOf(p.col, env)
               c2 == CellOf(p.col2, env)
           IN IF c1 = NULL \/ c2 = NULL THEN "U" ELSE Bool3(c1[1] = c2[1])
      [] p.k = "between" ->
           LET c == CellOf(p.col, env)
           IN IF c = NULL THEN "U" ELSE Bool3(p.lo <= c[1] /\ c[1] <= p.hi)
      [] p.k = "like" ->
           LET c == CellOf(p.col, env)
           IN IF c = NULL THEN "U" ELSE Bool3(LikeMatch(p.mode, c[1], p.v))
      [] p.k = "exists" ->
           Bool3(\E i \in 1..Len(tables[p.table]) :
                    Eval(p.where, Append(env, tables[p.table][i]), tables) = "T")

\* The row is returned by a query whose WHERE clause is p.
Matches(p, r, tables) == Eval(p, <<r>>, tables) = "T"

(***************************************************************************)
(* The inputs of the filter machine: one leaf [field, operator, values...] *)
(* of a find() on Shot, the Shot row it is asked about, the tables the     *)
(* EXISTS subqueries read, and the readings of the wall clock.             *)
(***************************************************************************)
\* tests/test_time.py 14: the clock the test injects, 2021-03-01 09:00
TNow == datetime(2021, 3, 1, 9 * TicksPerHour)

\* what datetime.utcnow() first returns: the same instant, or a day later
Walls == {TNow, TNow + timedelta_days(1)}

\* a wall clock in January of a leap year: the month after it is a
\* February of 29 days, the month before it is in the year before
LeapWall == datetime(2020, 1, 15, 9 * TicksPerHour)

\* non-decreasing readings of the wall clock within one compilation
ClockReads(w) ==
    {c \in {<<w, w + d2, w + d3>> : d2, d3 \in 0..MaxClockDrift} : c[2] <= c[3]}

\* The kind of Python value a field type holds.
Kind(t) ==
    CASE t \in {"number", "float", "currency", "duration", "percent",
                "timecode", "checkbox"} -> "num"
      [] t \in {"date", "date_time"} -> "time"
      [] t \in {"entity", "multi_entity", "addressing", "tag_list"} -> "entity"
      [] OTHER -> "text"

Scalars(kind) ==
    CASE kind = "num" -> {PyInt(1), PyInt(2)}
      [] kind = "time" -> {PyInt(TNow), PyInt(datetime(2021, 2, 1, 0))}
      [] kind = "entity" -> {PyDict(1, nm.Asset), PyDict(2, nm.Asset), PyDict(1, nm.Task)}
      [] OTHER -> {PyStr(<<"a">>), PyStr(<<"a", "b">>)}

RelativeOps == {"in_last", "not_in_last", "in_next", "not_in_next"}
CalendarOps == {"in_calendar_day", "in_calendar_week", "in_calendar_month",
                "in_calendar_year"}

\* The values a leaf of operator op carries on a field of the kind.
ValuesFor(kind, op) ==
    CASE op \in {"is", "is_not"} -> {<<v>> : v \in Scalars(kind) \cup {PyNone}}
      [] op \in {"in", "not_in"} ->
           {<<v>> : v \in Scalars(kind)} \cup
           {<<PyList(<<v, w>>)>> : v, w \in Scalars(kind)}
      [] op \in {"less_than", "greater_than"} -> {<<v>> : v \in Scalars(kind)}
      [] op \in {"between", "not_between"} ->
           IF kind = "time"
           THEN {<<PyInt(datetime(2021, 1, 1, 0)), PyInt(datetime(2021, 3, 1, 0))>>,
                 <<PyList(<<PyInt(datetime(2021, 1, 1, 0)),
                            PyInt(datetime(2021, 3, 1, 0))>>)>>}
           ELSE {<<PyInt(1), PyInt(2)>>, <<PyList(<<PyInt(1), PyInt(2)>>)>>}
      [] op \in RelativeOps ->
           {<<PyInt(1), PyStr(u)>> : u \in TimeUnits \cup {nm.MINUTE}}
      [] op \in CalendarOps -> {<<PyInt(n)>> : n \in {-1, 0, 1}}
      [] op \in {"type_is", "type_is_not"} -> {<<PyStr(nm.Asset)>>, <<PyStr(nm.Task)>>}
      [] op \in {"name_id", "not_an_operator"} -> {<<PyInt(1)>>}
      [] OTHER -> {<<PyStr(<<"a">>)>>}

\* The values are of the shape the operator documents.
WellTyped(q) == q.op \in RelativeOps => q.value[2].v \in TimeUnits

Leaves(field, kind, ops) ==
    UNION {{[field |-> field, op |-> o, value |-> v] : v \in ValuesFor(kind, o)} :
           o \in ops}

\* The field types Shot.sg_f is given; Shot.assets and Shot.tasks are the
\* multi-entity fields.
SgfTypes == FieldType \ {"multi_entity"}

QueriesFor(ft) ==
    Leaves(<<nm.sg_f>>, Kind(ft), Operators)
    \cup (IF ft = "text"
          THEN Leaves(<<nm.assets>>, "entity", Operators)
               \cup Leaves(<<nm.tasks>>, "entity", Operators)
               \cup Leaves(<<nm.assets, nm.Asset, nm.code>>, "text", Operators)
               \cup Leaves(<<nm.tasks, nm.Task, nm.content>>, "text", {"is"})
               \cup Leaves(<<nm.nope>>, "text", {"is", "is_not"})
               \cup Leaves(<<nm.code, nm.Asset, nm.code>>, "text", {"is"})
               \cup Leaves(<<nm.nope, nm.Asset, nm.code>>, "text", {"is"})
          ELSE {})
    \cup (IF ft = "entity"
          THEN Leaves(<<nm.sg_f, nm.Asset, nm.code>>, "text", Operators)
               \cup Leaves(<<nm.sg_f, nm.Nope, nm.code>>, "text", {"is"})
          ELSE {})

\* The links a Shot row may hold in sg_f when it is an entity field: none,
\* or the type, id and name of the linked entity.
NoLink == [type |-> <<>>, id |-> 0, name |-> NULL]
Links == {NoLink,
          [type |-> nm.Asset, id |-> 1, name |-> Cell(<<"a">>)],
          [type |-> nm.Asset, id |-> 2, name |-> NULL],
          [type |-> nm.Task, id |-> 1, name |-> Cell(<<"a">>)]}

LinkRow(id, f, l) ==
    IF l = NoLink THEN Row(id, NoCols) ELSE Row(id, LinkCols(f, l.type, l.id, l.name))

ScalarRow(id, f, cell) ==
    IF cell = NULL THEN Row(id, NoCols) ELSE Row(id, (<<f, "val">> :> cell))

\* The timestamps of the rows a time filter is asked about: the rows of
\* tests/test_time.py 7-12, and for a relative filter the instants around
\* both ends of its interval, counted from either clock.
TimeCells(q) ==
    LET tested == {datetime(2020, 1, 1, 0), datetime(2021, 1, 1, 0),
                   datetime(2021, 2, 1, 0), datetime(2021, 3, 1, 0), TNow, TNow + 1}
        h == IF q.op \in RelativeOps /\ WellTyped(q)
             THEN timedelta_hours(HoursOf(q.value[1].v, q.value[2].v)) ELSE 0
        around == {b + e + d : b \in Walls, e \in {0 - h, 0, h},
                               d \in -1..(MaxClockDrift + 1)}
        calendar == {datetime(2021, 3, 7, 9 * TicksPerHour), datetime(2021, 3, 8, 0),
                     datetime(2021, 2, 28, TicksPerDay - 1),
                     datetime(2019, 12, 15, 0), datetime(2020, 1, 15, 0),
                     datetime(2020, 2, 1, 0), datetime(2020, 2, 29, 9 * TicksPerHour),
                     datetime(2020, 3, 1, 0)}
    IN {NULL} \cup {Cell(t) : t \in (IF h # 0 THEN around
                                     ELSE IF q.op \in CalendarOps THEN tested \cup calendar
                                     ELSE tested)}

CellsFor(kind, q) ==
    CASE kind = "num" -> {NULL, Cell(1), Cell(2), Cell(3)}
      [] kind = "time" -> TimeCells(q)
      [] OTHER -> {NULL, Cell(<<"a">>), Cell(<<"a", "b">>), Cell(<<"b">>)}

\* The Shot row under test, id 1.
RowsFor(ft, q) ==
    IF q.field[1] # nm.sg_f \/ ft \in {"addressing", "tag_list"}
    THEN {Row(1, NoCols)}
    ELSE IF ft = "entity" THEN {LinkRow(1, nm.sg_f, l) : l \in Links}
    ELSE {ScalarRow(1, nm.sg_f, c) : c \in CellsFor(Kind(ft), q)}

ClocksFor(ft, q) ==
    IF q.field = <<nm.sg_f>> /\ Kind(ft) = "time" /\ q.op \in RelativeOps
    THEN UNION {ClockReads(w) : w \in Walls}
    ELSE IF q.field = <<nm.sg_f>> /\ Kind(ft) = "time" /\ q.op \in CalendarOps
    THEN UNION {ClockReads(w) : w \in Walls \cup {LeapWall}}
    ELSE {<<TNow, TNow, TNow>>}

\* The clock injected as _now_function: the one tests/test_time.py 14
\* injects, or one that agrees with the wall clock.
NowsFor(c) == {TNow, c[1]}

\* Sequences without repetition of at most MaxLinks elements of S.
LinkSeqs(S) ==
    {s \in UNION {[1..n -> S] : n \in 0..MaxLinks} :
        \A i, j \in 1..Len(s) : i # j => s[i] # s[j]}

\* The rows create() writes for a link of Shot.assets
\* (fakegrid.py 205-226): the owner and the linked entity.
AssetLinks == {[shot |-> 1, asset |-> 1], [shot |-> 1, asset |-> 2],
               [shot |-> 2, asset |-> 1]}

AssetTable == <<Row(1, (<<nm.code, "val">> :> Cell(<<"a">>))), Row(2, NoCols)>>

ConnRow(id, l) ==
    Row(id, LinkCols(nm.shot, nm.Shot, l.shot, NULL) @@
            LinkCols(nm.linked_entity, nm.Asset, l.asset,
                     ColValue(AssetTable[l.asset], nm.code, "val")))

\* The Task rows: tasks 1 and 2 of shot 1, task 3 of shot 2.
TaskLinks == {[id |-> 1, shot |-> 1], [id |-> 2, shot |-> 1], [id |-> 3, shot |-> 2]}

TaskRow(l) ==
    Row(l.id, LinkCols(nm.entity, nm.Shot, l.shot, NULL) @@
              (IF l.id = 2 THEN NoCols ELSE (<<nm.content, "val">> :> Cell(<<"a">>))))

Tables(r, conn, tasks) ==
    (nm.Shot :> <<r>>) @@ (nm.Asset :> AssetTable) @@ (nm.Task :> tasks) @@
    (N_ShotAssetsConn :> conn)

DbsFor(r, q) ==
    IF q.field[1] = nm.assets
    THEN {Tables(r, [i \in 1..Len(s) |-> ConnRow(i, s[i])], <<>>) : s \in LinkSeqs(AssetLinks)}
    ELSE IF q.field[1] = nm.tasks
    THEN {Tables(r, <<>>, [i \in 1..Len(s) |-> TaskRow(s[i])]) : s \in LinkSeqs(TaskLinks)}
    ELSE {Tables(r, <<>>, <<>>)}

NotCompiled == Raise("")

(***************************************************************************)
(* The filter machine: find() on Shot with one leaf (fakegrid.py 234-385). *)
(***************************************************************************)
Init ==
    /\ pc = "start"
    /\ ftype \in SgfTypes
    /\ query \in QueriesFor(ftype)
    /\ row \in RowsFor(ftype, query)
    /\ db \in DbsFor(row, query)
    /\ clk \in ClocksFor(ftype, query)
    /\ now_fn \in NowsFor(clk)
    /\ compiled = NotCompiled
    /\ matched = FALSE
    /\ fields = <<>>
    /\ retired_only = FALSE
    /\ result = <<>>
    /\ path = <<>>
    /\ field_path = NotCompiled
    /\ CreateIdle
    /\ rpc = "idle"
    /\ raw = <<>>
    /\ schema = FilterSchema(ftype)
    /\ warnings = {}

\* _build_wheres_and_joins calls _apply_operator on the leaf
\* (fakegrid.py 387-449); an exception ends the find().
Compile ==
    /\ pc = "start"
    /\ compiled' = find(schema, query, fields, clk)
    /\ pc' = IF compiled'.ok THEN "compiled" ELSE "failed"
    /\ UNCHANGED <<ftype, query, row, db, clk, now_fn, matched, fields, retired_only,
                   result, pvars, rvars, cvars>>

\* find() runs the query (fakegrid.py 313-385): the row is returned when
\* every where is true of it, the one on is_retired included, and each
\* record has the keys of the selected columns.
Execute ==
    /\ pc = "compiled"
    /\ matched' = (/\ Matches(compiled.pred, row, db)
                   /\ Matches(retired_where(retired_only), row, db))
    /\ result' = fields_to_query(schema, _resolve_fields(schema, nm.Shot, fields, 1, <<>>).pred,
                                 1, <<<<nm.id>>, <<nm.type>>>>).pred
    /\ pc' = "done"
    /\ UNCHANGED <<ftype, query, row, db, clk, now_fn, compiled, fields, retired_only,
                   pvars, rvars, cvars>>

Next == Compile \/ Execute

Spec == Init /\ [][Next]_vars

(***************************************************************************)
(* find() with a filter tree, return fields and retired_only.  Either the  *)
(* filters are a tree over a number field, or the filters and the return   *)
(* fields are paths from Shot over an entity field.                        *)
(***************************************************************************)
FindLeaves ==
    {[field |-> <<nm.sg_f>>, op |-> "is", value |-> <<PyInt(1)>>],
     [field |-> <<nm.sg_f>>, op |-> "is_not", value |-> <<PyInt(2)>>],
     [field |-> <<nm.sg_f>>, op |-> "greater_than", value |-> <<PyInt(1)>>],
     [field |-> <<nm.nope>>, op |-> "is", value |-> <<PyInt(1)>>]}

\* The shapes of a filter tree over the leaves a, b and c.
FilterShapes(a, b, c) ==
    {a, FilterList(<<>>), FilterList(<<a>>), FilterList(<<a, b>>),
     Group("all", <<>>), Group("any", <<>>), Group("none", <<>>),
     Group("all", <<a>>), Group("any", <<a>>), Group("none", <<a>>),
     Group("all", <<a, b>>), Group("any", <<a, b>>), Group("none", <<a, b>>),
     Group("any", <<a, Group("all", <<b, c>>)>>),
     Group("all", <<a, Group("any", <<b, c>>)>>),
     Group("any", <<a, Group("all", <<>>)>>),
     FilterList(<<a, Group("any", <<b, c>>)>>),
     Group("any", <<FilterList(<<a, b>>), c>>),
     Group("all", <<Group("any", <<Group("all", <<a, b>>), c>>)>>)}

FilterTrees == UNION {FilterShapes(a, b, c) : a, b, c \in FindLeaves}

\* Paths from Shot of one, three or five tokens.
FindFields == {nm.code, nm.sg_f, nm.assets, nm.tasks, nm.nope, nm.content, nm.entity,
               nm.id}
FindEntities == {nm.Shot, nm.Asset, nm.Task, nm.Nope}
FindPaths ==
    {<<f>> : f \in FindFields}
    \cup {<<f, e, g>> : f \in FindFields, e \in FindEntities, g \in FindFields}
    \cup {<<nm.tasks, nm.Task, nm.entity, nm.Shot, g>> : g \in FindFields}
    \cup {<<nm.sg_f, nm.Asset, nm.code, e, nm.code>> : e \in FindEntities}

\* [path, is, v], v of the kind the last field of the path holds
PathLeaf(p) ==
    LET last == p[Len(p)]
    IN [field |-> p, op |-> "is",
        value |-> IF last \in {nm.sg_f, nm.assets, nm.tasks, nm.entity}
                  THEN <<PyDict(1, nm.Asset)>>
                  ELSE IF last = nm.id THEN <<PyInt(1)>> ELSE <<PyStr(<<"a">>)>>]

\* The return fields asked: one path, or code and a second path.
FieldLists ==
    {<<p>> : p \in FindPaths} \cup {<<<<nm.code>>, p>> : p \in FindPaths}

Retired(r, b) == [r EXCEPT !.is_retired = b]

InitFind ==
    /\ pc = "start"
    /\ \/ /\ ftype = "number"
          /\ query \in FilterTrees
          /\ fields = <<>>
          /\ \E c \in {NULL, Cell(1), Cell(2)}, b \in BOOLEAN :
                 row = Retired(ScalarRow(1, nm.sg_f, c), b)
          /\ db = Tables(row, <<>>, <<>>)
       \/ /\ ftype = "entity"
          /\ \/ query \in {PathLeaf(p) : p \in FindPaths} /\ fields = <<>>
             \/ query = FilterList(<<>>) /\ fields \in FieldLists
          /\ \E l \in {NoLink, [type |-> nm.Asset, id |-> 1, name |-> Cell(<<"a">>)]},
                b \in BOOLEAN :
                 row = Retired(LinkRow(1, nm.sg_f, l), b)
          /\ db = Tables(row, <<ConnRow(1, [shot |-> 1, asset |-> 1])>>,
                         <<TaskRow([id |-> 1, shot |-> 1])>>)
    /\ retired_only \in BOOLEAN
    /\ clk = <<TNow, TNow, TNow>>
    /\ now_fn = TNow
    /\ compiled = NotCompiled
    /\ matched = FALSE
    /\ result = <<>>
    /\ path = <<>>
    /\ field_path = NotCompiled
    /\ CreateIdle
    /\ rpc = "idle"
    /\ raw = <<>>
    /\ schema = FilterSchema(ftype)
    /\ warnings = {}

SpecFind == InitFind /\ [][Next]_vars

(***************************************************************************)
(* Properties of the filter machine.                                       *)
(***************************************************************************)
Compiling == pc # "start"
PlainSgf == query.field = <<nm.sg_f>>
PlainMulti == query.field \in {<<nm.assets>>, <<nm.tasks>>}

\* The type of the field a plain leaf names.
LeafType == IF PlainSgf THEN ftype ELSE "multi_entity"

Allowed(t, op) == Contains(ALLOWED_OPERATIONS_BY_FIELD_TYPE(t), op)

\* The cell of the row in a scalar sg_f, and whether an entity sg_f is unset.
SgfCell == ColValue(row, nm.sg_f, "val")
LinkAbsent == ColValue(row, nm.sg_f, "id") = NULL /\ ColValue(row, nm.sg_f, "type") = NULL

\* No None among the values of the leaf.
NonNullValues ==
    \A i \in 1..Len(query.value) :
        /\ ~isNone(query.value[i])
        /\ isList(query.value[i]) =>
              \A j \in 1..Len(query.value[i].v) : ~isNone(query.value[i].v[j])

\* C3: a leaf whose operator is outside the allow-list of its field's type
\* raises the unsupported-operator error and yields no predicate.
C3_DisallowedOperatorRaises ==
    (Compiling /\ (PlainSgf \/ PlainMulti) /\ LeafType \in TypesWithAllowList
       /\ ~Allowed(LeafType, query.op))
    => (~compiled.ok /\ compiled.err = UnsupportedOperator)

\* C4: a leaf whose operator is in the allow-list of its field's type, with
\* well-typed values, compiles to a predicate.
C4_AllowedOperatorCompiles ==
    (Compiling /\ (PlainSgf \/ PlainMulti) /\ LeafType \in TypesWithAllowList
       /\ Allowed(LeafType, query.op) /\ WellTyped(query))
    => compiled.ok

\* The predicate of the positive counterpart of the leaf's operator.
PositiveForm ==
    _apply_operator(schema, query.field, [ent |-> nm.Shot, a |-> 1],
                    negative_operators(query.op), query.value, clk)

\* C5: a row matches a negative operator exactly when it does not match
\* the positive counterpart with the same field and values.
C5_NegativeIsNotOfPositive ==
    (pc = "done" /\ IsNegative(query.op))
    => (PositiveForm.ok /\ (matched <=> ~Matches(PositiveForm.pred, row, db)))

\* A plain leaf on a field with a column, asked of a row where it is null.
NullRowLeaf ==
    /\ pc = "done"
    /\ PlainSgf
    /\ NonNullValues
    /\ IF ftype = "entity" THEN LinkAbsent ELSE SgfCell = NULL

C6Negatives == {"is_not", "not_in", "not_contains", "not_between", "not_in_last",
                "not_in_next"}

\* C6 as claimed: with a non-null value no operator, negative ones included,
\* matches a row whose field is null.
C6_NullRowNeverMatches == NullRowLeaf => ~matched

\* C6 amended: with a non-null value no positive operator matches a row
\* whose field is null, and is_not, not_in, not_contains, not_between,
\* not_in_last and not_in_next match every such row.
C6_NullRowMatchesNegativesOnly ==
    NullRowLeaf =>
        /\ ~IsNegative(query.op) => ~matched
        /\ query.op \in C6Negatives => matched

C6_Witness == NullRowLeaf /\ matched /\ query.op = "not_between" /\ ftype = "float"

\* C7: on an entity field, `is` None matches exactly the rows without a
\* link, and `is` {id, type} never matches a row without a link.
C7_EntityIsNull ==
    (pc = "done" /\ PlainSgf /\ ftype = "entity" /\ query.op = "is")
    => IF isNone(query.value[1]) THEN matched <=> LinkAbsent
       ELSE LinkAbsent => ~matched

C7_Witness ==
    /\ pc = "done" /\ PlainSgf /\ ftype = "entity" /\ query.op = "is"
    /\ isNone(query.value[1]) /\ LinkAbsent /\ matched

\* C8: on a scalar field, `is` None matches exactly the rows whose field is
\* null and `is_not` None exactly the rows whose field is not null.
C8_ScalarIsNull ==
    (pc = "done" /\ PlainSgf /\ ftype \notin LinkTypes
       /\ query.op \in {"is", "is_not"} /\ isNone(query.value[1]))
    => (matched <=> ((query.op = "is") <=> (SgfCell = NULL)))

\* The entities linked to the row through the multi-entity field of the
\* leaf: the linked_entity of its connection rows, or the entities whose
\* reverse field points at it.
LinkedThrough ==
    IF query.field = <<nm.assets>>
    THEN {[type |-> ColValue(r, nm.linked_entity, "type")[1],
           id |-> ColValue(r, nm.linked_entity, "id")[1]] :
             r \in {c \in Range(db[N_ShotAssetsConn]) :
                       /\ ColValue(c, nm.shot, "id") = Cell(row.id)
                       /\ ColValue(c, nm.shot, "type") = Cell(nm.Shot)}}
    ELSE {[type |-> nm.Task, id |-> r.id] :
             r \in {c \in Range(db[nm.Task]) :
                       /\ ColValue(c, nm.entity, "id") = Cell(row.id)
                       /\ ColValue(c, nm.entity, "type") = Cell(nm.Shot)}}

MultiIs ==
    /\ pc = "done" /\ PlainMulti /\ query.op = "is" /\ query.value[1].t = "dict"

\* C9: [F, is, X] on a multi-entity field matches exactly when one of the
\* entities linked through F has the id and the type of X.
C9_MultiEntityIsContains ==
    MultiIs =>
        (matched <=> [type |-> query.value[1].type, id |-> query.value[1].id]
                        \in LinkedThrough)

\* X is the second link of the row and the first is another entity.
C9_Witness ==
    /\ MultiIs /\ matched /\ query.field = <<nm.assets>>
    /\ Len(db[N_ShotAssetsConn]) >= 2
    /\ ColValue(db[N_ShotAssetsConn][1], nm.linked_entity, "id") # Cell(query.value[1].id)

C10Multiplier(unit) ==
    CASE unit = nm.HOUR -> 1
      [] unit = nm.DAY -> 24
      [] unit = nm.WEEK -> 168
      [] unit = nm.MONTH -> 720
      [] unit = nm.YEAR -> 8760

\* C10: in_last (amount, unit) matches exactly the rows stamped in
\* (now - hours, now], hours being amount times 1, 24, 168, 720 or 8760.
C10_InLastHalfOpen ==
    (pc = "done" /\ PlainSgf /\ ftype = "date_time" /\ query.op = "in_last"
       /\ SgfCell # NULL)
    => LET hours == query.value[1].v * C10Multiplier(query.value[2].v)
           t == SgfCell[1]
       IN matched <=> (now_fn - timedelta_hours(hours) < t /\ t <= now_fn)

\* A relative-date or calendar leaf on the time field sg_f.
TimeLeaf == PlainSgf /\ Kind(ftype) = "time"

\* The leaf compiled with every reading of "now" taken from the injected
\* clock.
CompiledAtInjectedNow ==
    _apply_operator(schema, query.field, [ent |-> nm.Shot, a |-> 1],
                    query.op, query.value, <<now_fn, now_fn, now_fn>>)

\* C11: the interval bounds of a relative-date leaf come from the injected
\* clock alone: whatever the wall clock reads, the compiled predicate is the
\* one compiled with "now" set to the injected clock at both bounds.
C11_NowFromInjectedClock ==
    (Compiling /\ TimeLeaf /\ query.op \in RelativeOps \cup CalendarOps)
    => compiled = CompiledAtInjectedNow

\* The first and the last instant of the month k months from the month of
\* now, in the proleptic Gregorian calendar.
MonthStart(now, k) ==
    LET idx == year(now) * 12 + (month(now) - 1) + k
    IN datetime(idx \div 12, (idx % 12) + 1, 1, 0)
MonthEnd(now, k) ==
    LET idx == year(now) * 12 + (month(now) - 1) + k
        y == idx \div 12
        m == (idx % 12) + 1
    IN datetime(y, m, monthrange(y, m), TicksPerDay - 1)

\* C12: in_calendar_month k compiles for every offset k and matches exactly
\* the rows stamped from the first instant of day 1 to the last instant of
\* the last day of the month k months from the current month.
C12_CalendarMonthExact ==
    (pc \in {"done", "failed"} /\ TimeLeaf /\ query.op = "in_calendar_month"
       /\ SgfCell # NULL)
    => /\ pc = "done"
       /\ matched <=> (/\ MonthStart(now_fn, query.value[1].v) <= SgfCell[1]
                       /\ SgfCell[1] <= MonthEnd(now_fn, query.value[1].v))

\* Monday 00:00 of the week k weeks from the week of now.
WeekStart(now, k) ==
    LET day == start_of(now + timedelta_weeks(k))
    IN day - timedelta_days(weekday(day))

\* C13: in_calendar_week k matches exactly the rows stamped from Monday
\* 00:00 to the last instant of Sunday of the week k weeks from the
\* current week.
C13_CalendarWeekMondayToSunday ==
    (pc = "done" /\ TimeLeaf /\ query.op = "in_calendar_week" /\ SgfCell # NULL)
    => (matched <=>
          (/\ WeekStart(now_fn, query.value[1].v) <= SgfCell[1]
           /\ SgfCell[1] < WeekStart(now_fn, query.value[1].v) + timedelta_weeks(1)))

(***************************************************************************)
(* Properties of find() with paths, filter trees and retired rows.         *)
(***************************************************************************)
IsLeaf(f) == ~IsGroup(f) /\ ~IsFilterList(f)

\* The entity the field token at place i of path p is resolved against.
ResolvedAgainst(p, i) == IF i = 1 THEN nm.Shot ELSE p[i - 1]

\* An entity-type token of p is not an entity of the schema.
UnknownEntityToken(p) ==
    \E i \in 1..Len(p) : i % 2 = 0 /\ ~HasEntity(schema, p[i])

\* A field token of p is not a field of the entity it is resolved against.
UnknownFieldToken(p) ==
    \E i \in 1..Len(p) :
        /\ i % 2 = 1
        /\ HasEntity(schema, ResolvedAgainst(p, i))
        /\ ~HasField(schema, ResolvedAgainst(p, i), p[i])

\* A field of p that links to nothing is followed by further segments.
ScalarFollowed(p) ==
    \E i \in 1..(Len(p) - 1) :
        /\ i % 2 = 1
        /\ HasField(schema, ResolvedAgainst(p, i), p[i])
        /\ FieldAt(schema, <<ResolvedAgainst(p, i), p[i]>>).field_type \notin LinkTypes

BadPath(p) == UnknownEntityToken(p) \/ UnknownFieldToken(p) \/ ScalarFollowed(p)

ResolutionError == ~compiled.ok /\ compiled.err \in {DoesNotExist, NotAValidRelation}

\* C15: a dotted path, of a filter or of a return field, with an unknown
\* field token, an unknown entity-type token or a non-link field followed
\* by further segments makes find() fail with "doesn't exist" or "is not a
\* valid relation".
C15_BadDottedPathIsResolutionError ==
    (Compiling /\ \/ (IsLeaf(query) /\ Len(query.field) > 1 /\ BadPath(query.field))
                  \/ \E i \in 1..Len(fields) : Len(fields[i]) > 1 /\ BadPath(fields[i]))
    => ResolutionError

\* The same for the dotted path of a filter alone.
FilterPathIsResolutionError ==
    (Compiling /\ IsLeaf(query) /\ Len(query.field) > 1 /\ BadPath(query.field))
    => ResolutionError

\* C16: a return field that does not resolve makes find() fail with the
\* resolution error, and the records of a find() that succeeds have every
\* return field asked.
C16_UnresolvedReturnFieldSurfaces ==
    /\ (Compiling /\ \E i \in 1..Len(fields) : BadPath(fields[i])) => ResolutionError
    /\ pc = "done" => \A i \in 1..Len(fields) : Contains(result, fields[i])

\* Every group and list of the tree has a child.
RECURSIVE NoEmptyGroup(_)
NoEmptyGroup(f) ==
    IF IsLeaf(f) THEN TRUE
    ELSE LET children == IF IsGroup(f) THEN f.filters ELSE f.list
         IN /\ children # <<>>
            /\ \A i \in 1..Len(children) : NoEmptyGroup(children[i])

\* The row satisfies the tree: a leaf by its own predicate, an "all" group
\* or a list by all of its children, an "any" group by one of them.
RECURSIVE TreeMatches(_)
TreeMatches(f) ==
    IF IsLeaf(f)
    THEN LET r == _apply_operator(schema, f.field, [ent |-> nm.Shot, a |-> 1], f.op,
                                  f.value, clk)
         IN r.ok /\ Matches(r.pred, row, db)
    ELSE IF IsFilterList(f) THEN \A i \in 1..Len(f.list) : TreeMatches(f.list[i])
    ELSE IF f.filter_operator = "all"
    THEN \A i \in 1..Len(f.filters) : TreeMatches(f.filters[i])
    ELSE \E i \in 1..Len(f.filters) : TreeMatches(f.filters[i])

RECURSIVE AllOrAny(_)
AllOrAny(f) ==
    IF IsLeaf(f) THEN TRUE
    ELSE IF IsFilterList(f) THEN \A i \in 1..Len(f.list) : AllOrAny(f.list[i])
    ELSE /\ f.filter_operator \in {"all", "any"}
         /\ \A i \in 1..Len(f.filters) : AllOrAny(f.filters[i])

C18_RetiredOnlyOrNone ==
    (pc = "done" /\ matched) => (row.is_retired <=> retired_only)

\* a retired row returned through an "any" group, and through a negation
C18_Witness ==
    /\ pc = "done" /\ matched /\ retired_only /\ row.is_retired
    /\ IsGroup(query) /\ query.filter_operator = "any"
    /\ Len(query.filters) = 2 /\ IsLeaf(query.filters[1])
    /\ query.filters[1].op = "is_not"

(***************************************************************************)
(* backends/base.py: FieldPath.from_string (92-125).  The classes Entity,  *)
(* Field and Schema it imports are not part of the sources: an entity is   *)
(* taken to be indexed by the api_name of its fields, and an unknown name  *)
(* to raise.                                                               *)
(***************************************************************************)
MaxHops == 2           \* entity hops of a field path

\* entity[field_name]
Entity_getitem(sch, entity, field_name) ==
    IF HasField(sch, entity, field_name)
    THEN Ok(FieldAt(sch, <<entity, field_name>>))
    ELSE Raise("KeyError")

FieldLinkedEntity(field, destination_entity) ==
    [field |-> field, destination_entity |-> destination_entity]

FieldPath(pathway, destination_field) ==
    [pathway |-> pathway, destination_field |-> destination_field]

\* base.py 107-120: the loop over the remaining tokens
RECURSIVE from_string_loop(_, _, _, _)
from_string_loop(sch, field_parts, current_field, pathway) ==
    IF field_parts = <<>> THEN Ok(FieldPath(pathway, current_field))
    ELSE LET entity_name == field_parts[1]
         IN IF ~HasEntity(sch, entity_name)
            THEN Raise("ValueError: Entity not found in schema")
            ELSE IF Len(field_parts) < 2 THEN Raise("IndexError: pop from empty list")
            ELSE LET f == Entity_getitem(sch, entity_name, field_parts[2])
                 IN IF ~f.ok THEN f
                    ELSE from_string_loop(sch, SubSeq(field_parts, 3, Len(field_parts)),
                             f.pred,
                             Append(pathway, FieldLinkedEntity(current_field, entity_name)))

\* the path read as its last field alone, without the hops before it
from_string_without_pathway(sch, base_entity, field_parts) ==
    LET f == Entity_getitem(sch, base_entity, field_parts[1])
        r == IF ~f.ok THEN f ELSE from_string_loop(sch, Tail(field_parts), f.pred, <<>>)
    IN IF r.ok THEN Ok(FieldPath(<<>>, r.pred.destination_field)) ELSE r

\* base.py 92-125: FieldPath.from_string(base_entity, field_path);
\* field_parts is field_path.split(".")
from_string(sch, base_entity, field_parts) ==
    LET f == Entity_getitem(sch, base_entity, field_parts[1])
    IN IF ~f.ok THEN f ELSE from_string_loop(sch, Tail(field_parts), f.pred, <<>>)

\* The paths given to from_string: field tokens at the odd places, entity
\* tokens at the even ones, of at most 2 * MaxHops + 1 tokens.
PathFields == {nm.code, nm.sg_f, nm.tasks, nm.entity, nm.nope}
PathEntities == {nm.Shot, nm.Asset, nm.Task, nm.Nope}
Paths ==
    UNION {{p \in [1..n -> PathFields \cup PathEntities] :
              \A i \in 1..n : p[i] \in (IF i % 2 = 1 THEN PathFields ELSE PathEntities)} :
           n \in 1..(2 * MaxHops + 1)}

InitPath ==
    /\ pc = "path"
    /\ ftype \in {"text", "entity"}
    /\ path \in Paths
    /\ field_path = NotCompiled
    /\ CreateIdle
    /\ schema = FilterSchema(ftype)
    /\ query = [field |-> <<>>, op |-> "", value |-> <<>>]
    /\ row = Row(1, NoCols)
    /\ db = <<>>
    /\ clk = <<TNow, TNow, TNow>>
    /\ now_fn = TNow
    /\ compiled = NotCompiled
    /\ matched = FALSE
    /\ fields = <<>>
    /\ retired_only = FALSE
    /\ result = <<>>
    /\ rpc = "idle"
    /\ raw = <<>>
    /\ warnings = {}

FromString ==
    /\ pc = "path"
    /\ field_path' = from_string(schema, nm.Shot, path)
    /\ pc' = "parsed"
    /\ UNCHANGED <<ftype, query, row, db, clk, now_fn, compiled, matched, fields,
                   retired_only, result, path, rvars,
                   cvars>>

NextPath == FromString

SpecPath == InitPath /\ [][NextPath]_vars

\* The entity the i-th field token of the path is looked up on.
PathEntityOf(i) == IF i = 1 THEN nm.Shot ELSE path[2 * i - 2]

\* The number of EntityType.field pairs of the path.
PathHops == (Len(path) - 1) \div 2

\* The path has 2k+1 tokens, its entity tokens name entities of the schema
\* and each field token a field of the entity it follows.
PathResolves ==
    /\ Len(path) % 2 = 1
    /\ \A i \in 1..(PathHops + 1) : HasField(schema, PathEntityOf(i), path[2 * i - 1])

\* C14: a path of 2k+1 tokens parses into k hops, hop i pairing the i-th
\* field token (a field of the entity before it, the base entity for the
\* first) with the i-th entity token, and the destination field is the last
\* token's field on the last named entity.
C14_PathwayPairsTokens ==
    (pc = "parsed" /\ PathResolves)
    => /\ field_path.ok
       /\ Len(field_path.pred.pathway) = PathHops
       /\ \A i \in 1..PathHops :
             field_path.pred.pathway[i] =
                 FieldLinkedEntity(FieldAt(schema, <<PathEntityOf(i), path[2 * i - 1]>>),
                                   path[2 * i])
       /\ field_path.pred.destination_field =
             FieldAt(schema, <<PathEntityOf(PathHops + 1), path[Len(path)]>>)

\* tasks.Task.entity.Shot.code: two hops, and code read on Shot.
C14_Witness ==
    /\ pc = "parsed" /\ PathResolves /\ PathHops = 2
    /\ field_path.ok /\ Len(field_path.pred.pathway) = 2
    /\ field_path.pred.destination_field.entity = path[4]

(***************************************************************************)
(* The relationship resolver: ShotgridSchema.from_connection               *)
(* (schema.py 839-909) and the passes it runs.                             *)
(***************************************************************************)
\* DEFAULT_REVERSES (schema.py 16-219), the entries for the entity and
\* field names of the model: per entity (or "_") the fields with a default,
\* and the default (None: one sided).
DEFAULT_REVERSES ==
    (nm.Wildcard :> ((nm.tasks :> nm.entity) @@ (nm.tags :> None) @@ (nm.users :> None))) @@
    (nm.Asset :> (nm.parents :> nm.assets)) @@
    (nm.HumanUser :> (nm.projects :> nm.users)) @@
    (nm.Shot :> <<>>) @@
    (nm.Task :> <<>>)

\* The lookup of schema.py 1116-1124: [found, value].
matching_default(entity, field) ==
    LET table == IF entity \in DOMAIN DEFAULT_REVERSES THEN DEFAULT_REVERSES[entity]
                 ELSE DEFAULT_REVERSES[nm.Wildcard]
    IN IF field \in DOMAIN table THEN [found |-> TRUE, value |-> table[field]]
       ELSE IF field \in DOMAIN DEFAULT_REVERSES[nm.Wildcard]
       THEN [found |-> TRUE, value |-> DEFAULT_REVERSES[nm.Wildcard][field]]
       ELSE [found |-> FALSE, value |-> None]

\* dict[key] = value on a dict kept as its key order and its mapping
DictKeys(order, key) == IF Contains(order, key) THEN order ELSE Append(order, key)

SetField(sch, ref, fld) == [sch EXCEPT !.ent[ref[1]].fields[ref[2]] = fld]

\* [(entity, field)] in the order of the two nested loops over the dicts
RECURSIVE AllRefs(_, _)
AllRefs(sch, i) ==
    IF i > Len(sch.order) THEN <<>>
    ELSE LET e == sch.order[i]
         IN [j \in 1..Len(sch.ent[e].forder) |-> <<e, sch.ent[e].forder[j]>>]
            \o AllRefs(sch, i + 1)

\* `_field.reverse_of or _field.parent_of or _field.one_sided`
is_resolved(f) == f.reverse_of # None \/ f.parent_of # <<>> \/ f.one_sided

\* parent_field.parent_of.append(_field), or parent_of = [_field]
append_parent_of(sch, parent_ref, ref) ==
    SetField(sch, parent_ref,
             [FieldAt(sch, parent_ref) EXCEPT !.parent_of = Append(@, ref)])

set_reverse_of(sch, ref, target) ==
    SetField(sch, ref, [FieldAt(sch, ref) EXCEPT !.reverse_of = target])

\* schema.py 1135-1147: every allowed type that has the parent field
RECURSIVE link_defaults(_, _, _, _, _)
link_defaults(sch, ref, parent_field_name, allowed_types, i) ==
    IF i > Len(allowed_types) THEN sch
    ELSE LET _type == allowed_types[i]
         IN IF ~HasField(sch, _type, parent_field_name)
            THEN link_defaults(sch, ref, parent_field_name, allowed_types, i + 1)
            ELSE link_defaults(
                     append_parent_of(set_reverse_of(sch, ref, <<_type, parent_field_name>>),
                                      <<_type, parent_field_name>>, ref),
                     ref, parent_field_name, allowed_types, i + 1)

\* schema.py 1105-1147: one field of the defaults loop
resolve_default(sch, ref) ==
    LET _field == FieldAt(sch, ref)
        d == matching_default(_field.entity, _field.api_name)
    IN IF _field.field_type \notin {"multi_entity", "entity", "tag_list", "addressing"}
       THEN sch
       ELSE IF is_resolved(_field) THEN sch
       ELSE IF ~d.found THEN sch
       ELSE IF d.value = None \/ _field.valid_types = <<>>
       THEN SetField(sch, ref, [_field EXCEPT !.one_sided = TRUE])
       ELSE link_defaults(sch, ref, d.value, _field.valid_types, 1)

\* re.match(built_in_entities, name): match[1], or None
match_entity(names, name) ==
    IF \E i \in 1..Len(names) : snake_case(names[i]) = name THEN name ELSE None

\* re.match(built_in_multientities, name): match[1], or None
match_multientity(names, name) ==
    IF name # <<>> /\ name[Len(name)] = "s"
       /\ \E i \in 1..Len(names) : snake_case(names[i]) = SubSeq(name, 1, Len(name) - 1)
    THEN SubSeq(name, 1, Len(name) - 1) ELSE None

\* schema.py 1150-1173: one field of the loop over the entity fields
resolve_entity_convention(sch, names, ref) ==
    LET _field == FieldAt(sch, ref)
        match == match_entity(names, _field.api_name)
        child_entity_type == camel_case(match)
        child_field_name == snake_case(ref[1]) \o <<"s">>
        child == <<child_entity_type, child_field_name>>
    IN IF _field.field_type # "entity" \/ is_resolved(_field) \/ match = None THEN sch
       ELSE IF child_entity_type = ref[1] THEN sch
       ELSE IF ~HasField(sch, child_entity_type, child_field_name) THEN sch
       ELSE IF FieldAt(sch, child).field_type # "multi_entity" THEN sch
       ELSE set_reverse_of(SetField(sch, ref, [_field EXCEPT !.parent_of = <<child>>]),
                           child, ref)

\* schema.py 1176-1199: one field of the loop over the multi-entity fields
resolve_multientity_convention(sch, names, ref) ==
    LET _field == FieldAt(sch, ref)
        match == match_multientity(names, _field.api_name)
        child_entity_type == camel_case(match)
        child_field_name == snake_case(ref[1]) \o <<"s">>
        child == <<child_entity_type, child_field_name>>
    IN IF _field.field_type # "multi_entity" \/ is_resolved(_field) \/ match = None THEN sch
       ELSE IF child_entity_type = ref[1] THEN sch
       ELSE IF ~HasField(sch, child_entity_type, child_field_name) THEN sch
       ELSE append_parent_of(set_reverse_of(sch, ref, child), child, ref)

\* One of the three loops of _resolve_builtin_reverses over every field.
RECURSIVE builtin_loop(_, _, _, _, _)
builtin_loop(sch, stage, names, refs, i) ==
    IF i > Len(refs) THEN sch
    ELSE builtin_loop(
             CASE stage = "defaults" -> resolve_default(sch, refs[i])
               [] stage = "entities" -> resolve_entity_convention(sch, names, refs[i])
               [] stage = "multi_entities" ->
                    resolve_multientity_convention(sch, names, refs[i]),
             stage, names, refs, i + 1)

\* A hint of reload_schema for one field: reverse_of and
\* inverse_association are a field reference or None, inverse_is_list says
\* the inverse_association is a list, through_join_entity_type is a name
\* or None.
Hint(e, f, reverse_of, inverse_association, through) ==
    [entity |-> e, field |-> f, reverse_of |-> reverse_of,
     inverse_association |-> inverse_association, inverse_is_list |-> FALSE,
     through_join_entity_type |-> through]

\* schema.py 1035-1092: one field of js_schema
resolve_hint(sch, h) ==
    LET ref == <<h.entity, h.field>>
        target == IF h.reverse_of # None THEN h.reverse_of ELSE h.inverse_association
        child_of_join ==
            /\ h.through_join_entity_type # None
            /\ HasEntity(sch, h.through_join_entity_type)
            /\ startswith(h.through_join_entity_type, h.entity)
    IN IF ~HasField(sch, h.entity, h.field) THEN sch
       ELSE IF h.reverse_of = None /\ h.inverse_association = None /\ ~h.inverse_is_list
       THEN sch
       ELSE IF h.reverse_of = None /\ (h.inverse_is_list \/ child_of_join) THEN sch
       ELSE IF ~HasField(sch, target[1], target[2]) THEN sch
       ELSE append_parent_of(set_reverse_of(sch, ref, target), target, ref)

RECURSIVE resolve_hints(_, _, _)
resolve_hints(sch, hints, i) ==
    IF i > Len(hints) THEN sch
    ELSE resolve_hints(resolve_hint(sch, hints[i]), hints, i + 1)

\* a multi-entity field that is one sided is left without a connection
needs_connection_unless_one_sided(sch, field) ==
    /\ field.field_type = "multi_entity"
    /\ field.connection_entity = None
    /\ ~field.one_sided
    /\ ~(field.reverse_of # None /\ FieldAt(sch, field.reverse_of).field_type = "entity")

\* schema.py 917-922: the fields _resolve_connections gives a connection
needs_connection(sch, field) ==
    /\ field.field_type = "multi_entity"
    /\ field.connection_entity = None
    /\ ~(field.reverse_of # None /\ FieldAt(sch, field.reverse_of).field_type = "entity")

\* schema.py 923-939: the entities named ...Connection with a field that is
\* the reverse of the field, in dict order, and such a field of an entity
real_connections(sch, ref) ==
    SelectSeq(sch.order,
              LAMBDA e : /\ endswith(e, nm.Connection)
                         /\ \E f \in Range(FieldsOf(sch, e)) : f.reverse_of = ref)

connection_field(sch, e, ref) ==
    SelectSeq(FieldsOf(sch, e), LAMBDA f : f.reverse_of = ref)[1].api_name

\* the keys of properties["properties"]["valid_types"], which line 972 tests
ValidTypesKeys == {nm.value, nm.editable}

\* The parent endpoint under the generic name of the child endpoint.
parent_api_name_as_child(entity) == nm.linked_entity

\* schema.py 971-973
parent_api_name(entity) ==
    IF entity \in ValidTypesKeys THEN nm.source_ \o snake_case(entity)
    ELSE snake_case(entity)

\* schema.py 951-1016: the synthesized connection entity of a field
fake_connection_entity(name, field) ==
    LET parent == parent_api_name(field.entity)
        id_f == ShotgridField(name, nm.id, "number", <<>>)
        parent_f == [ShotgridField(name, parent, "entity", <<field.entity>>)
                       EXCEPT !.one_sided = TRUE]
        child_f == [ShotgridField(name, nm.linked_entity, "entity", field.valid_types)
                      EXCEPT !.one_sided = TRUE]
    IN ShotgridEntity(name,
           DictKeys(DictKeys(<<nm.id>>, parent), nm.linked_entity),
           (nm.linked_entity :> child_f) @@ (parent :> parent_f) @@ (nm.id :> id_f),
           FALSE)

\* schema.py 1018-1022
RECURSIVE set_children_connection(_, _, _, _)
set_children_connection(sch, children, conn, i) ==
    IF i > Len(children) THEN sch
    ELSE set_children_connection(
             SetField(sch, children[i],
                      [FieldAt(sch, children[i]) EXCEPT !.connection_entity = conn]),
             children, conn, i + 1)

\* schema.py 916-1024: one field of _resolve_connections
resolve_connection(sch, ref) ==
    LET field == FieldAt(sch, ref)
        found == real_connections(sch, ref)
        name == connection_entity_name(ref[1], ref[2])
    IN IF ~needs_connection(sch, field) THEN sch
       ELSE IF found # <<>>
       THEN SetField(sch, ref,
                [field EXCEPT !.connection_entity =
                                  <<found[1], connection_field(sch, found[1], ref)>>])
       ELSE LET linked == SetField(sch, ref,
                              [field EXCEPT !.connection_entity =
                                                <<name, parent_api_name(ref[1])>>])
                children == set_children_connection(linked, field.parent_of,
                                                    <<name, nm.linked_entity>>, 1)
            IN [order |-> DictKeys(children.order, name),
                ent |-> (name :> fake_connection_entity(name, field)) @@ children.ent]

\* schema.py 913-916: the fields of the entities read at the start whose
\* name does not end in Connection
RECURSIVE resolve_connections(_, _, _)
resolve_connections(sch, refs, i) ==
    IF i > Len(refs) THEN sch
    ELSE resolve_connections(
             IF endswith(refs[i][1], nm.Connection) THEN sch
             ELSE resolve_connection(sch, refs[i]),
             refs, i + 1)

(***************************************************************************)
(* The raw inputs of the resolver: what schema_read() returns for a site   *)
(* with Shot, Asset and Task, and the hints of reload_schema.              *)
(***************************************************************************)
RawField(n, t, vt) == [name |-> n, data_type |-> t, valid_types |-> vt]

\* a dict of raw fields from the list of its items
RawEntity(fs) ==
    [forder |-> [i \in 1..Len(fs) |-> fs[i].name],
     fields |-> [n \in {fs[i].name : i \in 1..Len(fs)} |->
                   (CHOOSE f \in Range(fs) : f.name = n)]]

Opt(b, x) == IF b THEN <<x>> ELSE <<>>

\* What a site is made of: the order of the entities, the type of the
\* custom field Shot.sg_f (to Asset), whether Shot.assets, Asset.shots and
\* Shot.users exist, which single-entity fields of Task go with Shot.tasks,
\* and what reload_schema says of Shot.sg_f and Asset.sg_r; whether there
\* are HumanUser and Project, and in which order; whether there is the
\* connection entity AssetShotConnection and whether reload_schema gives
\* the reverse of both of its endpoints or of the Shot one alone.
Sites ==
    {c \in [order : {<<nm.Shot, nm.Asset, nm.Task>>, <<nm.Task, nm.Asset, nm.Shot>>},
             sgf : {"none", "entity", "multi_entity", "addressing", "tag_list", "mystery"},
             assets : BOOLEAN,
             shots : BOOLEAN,
             users : BOOLEAN,
             tasks : {"none", "entity", "shot", "both"},
             parents : {"none", "shot", "both"},
             people : {"none", "user_first", "project_first"},
             conn : {"none", "declared", "half"},
             js : {"none", "reverse_of", "inverse_association"}] :
        /\ c.people # "none" => (c.sgf = "none" /\ c.parents = "none" /\ c.js = "none")
        /\ c.conn # "none" => (c.sgf = "none" /\ c.parents = "none" /\ c.js = "none"
                                 /\ c.people = "none" /\ ~c.users)}

RawOf(c) ==
    LET shot == RawEntity(
            <<RawField(nm.id, "number", <<>>), RawField(nm.code, "text", <<>>)>>
            \o Opt(c.sgf # "none", RawField(nm.sg_f, c.sgf, <<nm.Asset>>))
            \o Opt(c.assets, RawField(nm.assets, "multi_entity", <<nm.Asset>>))
            \o Opt(c.tasks # "none", RawField(nm.tasks, "multi_entity", <<nm.Task>>))
            \o Opt(c.users, RawField(nm.users, "multi_entity", <<nm.HumanUser>>)))
        asset == RawEntity(
            <<RawField(nm.id, "number", <<>>), RawField(nm.code, "text", <<>>)>>
            \o Opt(c.shots, RawField(nm.shots, "multi_entity", <<nm.Shot>>))
            \o Opt(c.parents = "shot", RawField(nm.parents, "multi_entity", <<nm.Shot>>))
            \o Opt(c.parents = "both",
                   RawField(nm.parents, "multi_entity", <<nm.Shot, nm.Asset>>))
            \o Opt(c.parents = "both", RawField(nm.assets, "multi_entity", <<nm.Asset>>))
            \o Opt(c.js # "none", RawField(nm.sg_r, "multi_entity", <<nm.Shot>>)))
        task == RawEntity(
            <<RawField(nm.id, "number", <<>>), RawField(nm.content, "text", <<>>)>>
            \o Opt(c.tasks \in {"entity", "both"},
                   RawField(nm.entity, "entity", <<nm.Shot, nm.Asset>>))
            \o Opt(c.tasks \in {"shot", "both"}, RawField(nm.shot, "entity", <<nm.Shot>>)))
        human_user == RawEntity(
            <<RawField(nm.id, "number", <<>>), RawField(nm.name, "text", <<>>),
              RawField(nm.projects, "multi_entity", <<nm.Project>>)>>)
        project == RawEntity(
            <<RawField(nm.id, "number", <<>>), RawField(nm.name, "text", <<>>),
              RawField(nm.users, "multi_entity", <<nm.HumanUser>>)>>)
        people == CASE c.people = "user_first" -> <<nm.HumanUser, nm.Project>>
                    [] c.people = "project_first" -> <<nm.Project, nm.HumanUser>>
                    [] OTHER -> <<>>
        connection == RawEntity(
            <<RawField(nm.id, "number", <<>>),
              RawField(nm.asset, "entity", <<nm.Asset>>),
              RawField(nm.shot, "entity", <<nm.Shot>>)>>)
        declared == Opt(c.conn # "none", nm.AssetShotConnection)
        endpoints ==
            Opt(c.conn # "none",
                Hint(nm.AssetShotConnection, nm.shot, <<nm.Shot, nm.assets>>, None, None))
            \o Opt(c.conn = "declared",
                   Hint(nm.AssetShotConnection, nm.asset, <<nm.Asset, nm.shots>>, None, None))
        js == CASE c.js = "reverse_of" ->
                     <<Hint(nm.Asset, nm.sg_r, <<nm.Shot, nm.sg_f>>, None, None)>>
                [] c.js = "inverse_association" ->
                     <<Hint(nm.Shot, nm.sg_f, None, <<nm.Asset, nm.sg_r>>, None),
                       Hint(nm.Asset, nm.sg_r, None, <<nm.Shot, nm.sg_f>>, None)>>
                [] OTHER -> <<>>
    IN [order |-> c.order \o people \o declared,
        ent |-> [e \in Range(c.order \o people \o declared) |->
                   CASE e = nm.Shot -> shot
                     [] e = nm.Asset -> asset
                     [] e = nm.Task -> task
                     [] e = nm.HumanUser -> human_user
                     [] e = nm.Project -> project
                     [] e = nm.AssetShotConnection -> connection],
        js |-> js \o endpoints]

EmptySchema == [order |-> <<>>, ent |-> <<>>]

\* schema.py 856-871: the fields of an entity; a field whose data type is
\* no FieldType is skipped
read_fields(e, re) ==
    LET known == SelectSeq(re.forder, LAMBDA n : re.fields[n].data_type \in FieldType)
    IN ShotgridEntity(e, known,
           [n \in Range(known) |->
              ShotgridField(e, n, re.fields[n].data_type, re.fields[n].valid_types)],
           TRUE)

\* the names of the regular expressions of schema.py 1096-1101
entity_names == raw.order

InitResolver ==
    /\ pc = "idle"
    /\ ftype = "text"
    /\ query = [field |-> <<>>, op |-> "", value |-> <<>>]
    /\ row = Row(1, NoCols)
    /\ db = <<>>
    /\ clk = <<TNow, TNow, TNow>>
    /\ now_fn = TNow
    /\ compiled = NotCompiled
    /\ matched = FALSE
    /\ fields = <<>>
    /\ retired_only = FALSE
    /\ result = <<>>
    /\ path = <<>>
    /\ field_path = NotCompiled
    /\ CreateIdle
    /\ rpc = "read"
    /\ raw \in {RawOf(c) : c \in Sites}
    /\ schema = EmptySchema
    /\ warnings = {}

\* schema.py 847-871
ReadSchema ==
    /\ rpc = "read"
    /\ schema' = [order |-> raw.order,
                  ent |-> [e \in Range(raw.order) |-> read_fields(e, raw.ent[e])]]
    /\ rpc' = "defaults"
    /\ UNCHANGED <<raw, warnings, fvars, pvars, cvars>>

\* schema.py 1104-1147
ResolveDefaults ==
    /\ rpc = "defaults"
    /\ schema' = builtin_loop(schema, "defaults", entity_names, AllRefs(schema, 1), 1)
    /\ rpc' = "entities"
    /\ UNCHANGED <<raw, warnings, fvars, pvars, cvars>>

\* schema.py 1149-1173
ResolveEntities ==
    /\ rpc = "entities"
    /\ schema' = builtin_loop(schema, "entities", entity_names, AllRefs(schema, 1), 1)
    /\ rpc' = "multi_entities"
    /\ UNCHANGED <<raw, warnings, fvars, pvars, cvars>>

\* schema.py 1175-1199
ResolveMultiEntities ==
    /\ rpc = "multi_entities"
    /\ schema' = builtin_loop(schema, "multi_entities", entity_names,
                              AllRefs(schema, 1), 1)
    /\ rpc' = "hints"
    /\ UNCHANGED <<raw, warnings, fvars, pvars, cvars>>

\* schema.py 1032-1092
ResolveHints ==
    /\ rpc = "hints"
    /\ schema' = resolve_hints(schema, raw.js, 1)
    /\ rpc' = "connections"
    /\ UNCHANGED <<raw, warnings, fvars, pvars, cvars>>

\* schema.py 911-1024
ResolveConnections ==
    /\ rpc = "connections"
    /\ schema' = resolve_connections(schema, AllRefs(schema, 1), 1)
    /\ rpc' = "validate"
    /\ UNCHANGED <<raw, warnings, fvars, pvars, cvars>>

\* The two warnings of schema.py 884-907.
no_reverse_field(f) ==
    /\ f.field_type \in {"multi_entity", "entity"}
    /\ f.reverse_of = None /\ f.parent_of = <<>> /\ ~f.one_sided

no_connection_entity(sch, f) ==
    /\ f.field_type = "multi_entity"
    /\ f.reverse_of # None
    /\ FieldAt(sch, f.reverse_of).field_type # "entity"
    /\ ~f.one_sided
    /\ f.connection_entity = None

\* schema.py 884-909: the validation pass prints and returns the schema
Validate ==
    /\ rpc = "validate"
    /\ warnings' =
         {<<"has no reverse field", r>> :
             r \in {x \in Range(AllRefs(schema, 1)) : no_reverse_field(FieldAt(schema, x))}}
         \cup
         {<<"has no connection entity", r>> :
             r \in {x \in Range(AllRefs(schema, 1)) :
                       no_connection_entity(schema, FieldAt(schema, x))}}
    /\ rpc' = "done"
    /\ UNCHANGED <<raw, schema, fvars, pvars, cvars>>

NextResolver ==
    \/ ReadSchema
    \/ ResolveDefaults
    \/ ResolveEntities
    \/ ResolveMultiEntities
    \/ ResolveHints
    \/ ResolveConnections
    \/ Validate

SpecResolver == InitResolver /\ [][NextResolver]_vars

(***************************************************************************)
(* Properties of the resolver.                                             *)
(***************************************************************************)
\* The schema of the filter machine is what the resolver makes of the site
\* with Shot.sg_f, Shot.assets, Shot.tasks and Task.entity.
FilterSite(t) ==
    [order |-> <<nm.Shot, nm.Asset, nm.Task>>, sgf |-> t, assets |-> TRUE,
     shots |-> FALSE, users |-> FALSE, tasks |-> "entity",
     parents |-> "none", people |-> "none", conn |-> "none",
     js |-> "none"]

FilterSchemaIsResolved ==
    \A t \in {"entity", "addressing", "tag_list"} :
        (rpc = "done" /\ raw = RawOf(FilterSite(t))) => schema = FilterSchema(t)

ResolvedFields == {FieldAt(schema, r) : r \in Range(AllRefs(schema, 1))}

is_linked(f) ==
    f.reverse_of # None \/ f.parent_of # <<>> \/ f.connection_entity # None

link_state(f) == <<f.reverse_of, f.parent_of, f.one_sided>>

\* C19: a resolver stage leaves alone the fields an earlier stage resolved:
\* a field that has reverse_of, parent_of or one_sided set when a stage
\* starts has the same reverse_of, parent_of and one_sided when that stage
\* ends.
C19_StagesKeepResolvedFields ==
    [][\A r \in Range(AllRefs(schema, 1)) :
           is_resolved(FieldAt(schema, r))
               => link_state(FieldAt(schema', r)) = link_state(FieldAt(schema, r))]_vars

\* The fields named by the default table on the valid types of a field:
\* the candidate reverse fields of schema.py 1130-1141.
default_candidates(sch, ref) ==
    LET f == FieldAt(sch, ref)
        d == matching_default(f.entity, f.api_name)
    IN IF ~d.found \/ d.value = None THEN {}
       ELSE {<<t, d.value>> : t \in {x \in Range(f.valid_types) : HasField(sch, x, d.value)}}

\* C20: a field whose default reverse name is present on two or more of
\* its valid target entity types is left unresolved by the default table
\* stage: it has no reverse_of and is in no candidate's parent_of.
C20_AmbiguousDefaultLeftUnresolved ==
    rpc = "entities" =>
        \A r \in Range(AllRefs(schema, 1)) :
            Cardinality(default_candidates(schema, r)) >= 2
                => /\ FieldAt(schema, r).reverse_of = None
                   /\ \A c \in default_candidates(schema, r) :
                          ~Contains(FieldAt(schema, c).parent_of, r)

\* The synthesized connection entities of a schema (real = False).
synthesized(sch) == {e \in Range(sch.order) : ~sch.ent[e].real}

\* The fields a synthesized connection entity was made for.
owners(sch, e) ==
    {r \in Range(AllRefs(sch, 1)) : e = connection_entity_name(r[1], r[2])}

\* C21: every synthesized connection entity has exactly three fields, the
\* identity field id and two Entity endpoint fields that are both
\* one_sided, a source side whose valid type is the owning entity and a
\* target side, also when the owning entity is one of the valid types of
\* the field it was synthesized for.
C21_SynthesizedEntityHasThreeFields ==
    \A e \in synthesized(schema) :
        LET fs == Range(FieldsOf(schema, e))
            endpoints == {f \in fs : f.field_type = "entity"}
        IN /\ Len(schema.ent[e].forder) = 3
           /\ Cardinality(DOMAIN schema.ent[e].fields) = 3
           /\ Cardinality({f \in fs : f.api_name = nm.id /\ f.field_type = "number"}) = 1
           /\ Cardinality(endpoints) = 2
           /\ \A f \in endpoints : f.one_sided
           /\ \A r \in owners(schema, e) :
                  \E src \in endpoints, tgt \in endpoints :
                      /\ src.api_name # tgt.api_name
                      /\ src.valid_types = <<r[1]>>
                      /\ tgt.valid_types = FieldAt(schema, r).valid_types
           /\ owners(schema, e) # {}

\* A resolved schema with a connection entity synthesized for a field
\* whose owning entity is one of its valid types.
C21_Witness ==
    /\ rpc = "done"
    /\ \E e \in synthesized(schema) :
           \E r \in owners(schema, e) :
               r[1] \in Range(FieldAt(schema, r).valid_types)

\* The fields that reference a synthesized connection entity through its
\* source endpoint: the fields a connection entity was synthesized for.
synthesized_for(sch) ==
    {r \in Range(AllRefs(sch, 1)) :
        LET c == FieldAt(sch, r).connection_entity
        IN c # None /\ c[1] \in synthesized(sch) /\ c[2] # nm.linked_entity}

\* C22: synthesizing connection entities replaces no entry of the entity
\* map: the entities read are all still there as real entities, two
\* different (owning entity, field) pairs have different synthesized
\* names, every synthesized entity has the name of one pair only, and
\* api_name is a unique key of the map.
C22_SynthesisKeepsApiNameUnique ==
    rpc \in {"validate", "done"} =>
        /\ \A e \in Range(raw.order) : HasEntity(schema, e) /\ schema.ent[e].real
        /\ \A r1 \in Range(AllRefs(schema, 1)), r2 \in Range(AllRefs(schema, 1)) :
               r1 # r2 => connection_entity_name(r1[1], r1[2])
                            # connection_entity_name(r2[1], r2[2])
        /\ \A r \in Range(AllRefs(schema, 1)) :
               connection_entity_name(r[1], r[2]) \notin Range(raw.order)
        /\ \A e \in synthesized(schema) : Cardinality(owners(schema, e)) = 1
        /\ \A i \in 1..Len(schema.order), j \in 1..Len(schema.order) :
               schema.order[i] = schema.order[j] => i = j
        /\ \A e \in DOMAIN schema.ent : schema.ent[e].api_name = e

\* A resolved schema with connection entities synthesized for two fields
\* of the same owning entity.
C22_Witness ==
    /\ rpc = "done"
    /\ \E r1 \in synthesized_for(schema), r2 \in synthesized_for(schema) :
           r1[1] = r2[1] /\ r1[2] # r2[2]

\* The entry of the default table for a field: the one keyed by the entity
\* and the field when there is one, otherwise the wildcard one keyed by
\* the field, as [found, value].
default_entry(e, f) ==
    IF e \in DOMAIN DEFAULT_REVERSES /\ e # nm.Wildcard /\ f \in DOMAIN DEFAULT_REVERSES[e]
    THEN [found |-> TRUE, value |-> DEFAULT_REVERSES[e][f]]
    ELSE IF f \in DOMAIN DEFAULT_REVERSES[nm.Wildcard]
    THEN [found |-> TRUE, value |-> DEFAULT_REVERSES[nm.Wildcard][f]]
    ELSE [found |-> FALSE, value |-> None]

\* C23: after the default table stage, a link-capable field whose entry is
\* null is one_sided with no reverse_of and no parent_of, a field whose
\* entry is a name r has no reverse_of or has as reverse_of a field named
\* r on one of its valid types, and a field with no entry is as it was
\* read.
C23_DefaultTableLookup ==
    rpc = "entities" =>
        \A r \in Range(AllRefs(schema, 1)) :
            LET f == FieldAt(schema, r)
                d == default_entry(f.entity, f.api_name)
            IN f.field_type \in LinkTypes =>
                 /\ ~d.found
                      => f = ShotgridField(r[1], r[2], f.field_type, f.valid_types)
                 /\ (d.found /\ d.value = None)
                      => f.one_sided /\ f.reverse_of = None /\ f.parent_of = <<>>
                 /\ (d.found /\ d.value # None /\ f.reverse_of # None)
                      => /\ f.reverse_of[2] = d.value
                         /\ f.reverse_of[1] \in Range(f.valid_types)

\* The endpoints that can be reused for a field: <<entity, field>> of the
\* fields of real entities named ...Connection whose reverse_of is the
\* field.
declared_endpoints(sch, ref) ==
    {r \in Range(AllRefs(sch, 1)) :
        /\ sch.ent[r[1]].real
        /\ endswith(r[1], nm.Connection)
        /\ FieldAt(sch, r).reverse_of = ref}

\* C24: after connection resolution a multi-entity field of a
\* non-connection entity that is not the reverse of a single-entity field
\* and has a declared connection entity with an endpoint whose reverse_of
\* is the field references that entity and endpoint, and no connection
\* entity was synthesized for it.
C24_DeclaredConnectionIsReused ==
    rpc \in {"validate", "done"} =>
        \A r \in Range(AllRefs(schema, 1)) :
            LET f == FieldAt(schema, r)
            IN (/\ f.field_type = "multi_entity"
                /\ ~endswith(r[1], nm.Connection)
                /\ ~(f.reverse_of # None
                       /\ FieldAt(schema, f.reverse_of).field_type = "entity")
                /\ declared_endpoints(schema, r) # {})
               => /\ f.connection_entity \in declared_endpoints(schema, r)
                  /\ ~HasEntity(schema, connection_entity_name(r[1], r[2]))

\* C25: after connection resolution every MultiEntity, Addressing or
\* TagList field of an entity whose name does not end in Connection that
\* is not the reverse of a single-entity field has a connection entity.
C25_MultiEntityFamilyHasConnection ==
    rpc \in {"validate", "done"} =>
        \A r \in Range(AllRefs(schema, 1)) :
            LET f == FieldAt(schema, r)
            IN (/\ f.field_type \in {"multi_entity", "addressing", "tag_list"}
                /\ ~endswith(r[1], nm.Connection)
                /\ ~(f.reverse_of # None
                       /\ FieldAt(schema, f.reverse_of).field_type = "entity"))
               => f.connection_entity # None

\* The pairs <<child, parent>> of multi-entity fields of non-connection
\* entities that are reverses of each other and of no other field, with
\* no declared connection entity for either.
reverse_pairs(sch) ==
    {p \in Range(AllRefs(sch, 1)) \X Range(AllRefs(sch, 1)) :
        LET child == FieldAt(sch, p[1])
            parent == FieldAt(sch, p[2])
        IN /\ child.field_type = "multi_entity" /\ parent.field_type = "multi_entity"
           /\ ~endswith(p[1][1], nm.Connection) /\ ~endswith(p[2][1], nm.Connection)
           /\ child.reverse_of = p[2]
           /\ Range(parent.parent_of) = {p[1]}
           /\ Range(child.parent_of) \subseteq {p[2]}
           /\ parent.reverse_of \in {None, p[1]}
           /\ \A r \in Range(AllRefs(sch, 1)) :
                  r \notin {p[1], p[2]}
                      => /\ p[1] \notin Range(FieldAt(sch, r).parent_of)
                         /\ p[2] \notin Range(FieldAt(sch, r).parent_of)
                         /\ FieldAt(sch, r).reverse_of \notin {p[1], p[2]}
           /\ declared_endpoints(sch, p[1]) = {} /\ declared_endpoints(sch, p[2]) = {}}

\* C26: for two multi-entity fields that are reverses of each other, with
\* no declared connection entity, both fields reference the same
\* synthesized connection entity, one through its source endpoint and the
\* other through linked_entity, and no other connection entity
\* synthesized for either field is in the schema.
C26_OneConnectionPerReversePair ==
    rpc \in {"validate", "done"} =>
        \A p \in reverse_pairs(schema) :
            LET c1 == FieldAt(schema, p[1]).connection_entity
                c2 == FieldAt(schema, p[2]).connection_entity
            IN /\ c1 # None /\ c2 # None
               /\ c1[1] = c2[1]
               /\ c1[1] \in synthesized(schema)
               /\ c1[2] # c2[2]
               /\ nm.linked_entity \in {c1[2], c2[2]}
               /\ \A e \in synthesized(schema) :
                      owners(schema, e) \cap {p[1], p[2]} # {} => e = c1[1]

\* C28: in the resolved schema a one_sided field has no reverse_of and no
\* parent_of and is in the parent_of of no field.
C28_OneSidedIsUnlinked ==
    rpc = "done" =>
        \A r \in Range(AllRefs(schema, 1)) :
            FieldAt(schema, r).one_sided
                => /\ FieldAt(schema, r).reverse_of = None
                   /\ FieldAt(schema, r).parent_of = <<>>
                   /\ \A p \in Range(AllRefs(schema, 1)) :
                          r \notin Range(FieldAt(schema, p).parent_of)

\* C29: in the resolved schema a field c is in p.parent_of exactly when
\* c.reverse_of is p, and no field is listed twice in a parent_of list.
C29_ReverseOfMatchesParentOf ==
    rpc = "done" =>
        \A p \in Range(AllRefs(schema, 1)) :
            /\ \A c \in Range(AllRefs(schema, 1)) :
                   (c \in Range(FieldAt(schema, p).parent_of))
                       <=> (FieldAt(schema, c).reverse_of = p)
            /\ \A i \in 1..Len(FieldAt(schema, p).parent_of) :
                   \A j \in 1..Len(FieldAt(schema, p).parent_of) :
                       FieldAt(schema, p).parent_of[i] = FieldAt(schema, p).parent_of[j]
                           => i = j

\* C30: find() raises for a filter tree in which some group has a
\* filter_operator other than "all" and "any", whatever the number of
\* children of that group.
C30_UnknownGroupOperatorRejected ==
    (pc # "start" /\ ~AllOrAny(query)) => ~compiled.ok

(***************************************************************************)
(* Fakegrid.create (fakegrid.py 75-232) on Shot with the multi-entity      *)
(* field sg_f, whose valid types are Asset and Shot and whose connection    *)
(* entity is synthesized.  A link is <<type, id>>; a connection row is the  *)
(* links held by its entity columns and is_retired.  The id of a pending    *)
(* row that data gives no id is None until the session is flushed; as an   *)
(* id, None is written 0 (the ids of rows start at 1).                      *)
(***************************************************************************)
MaxNewLinks == 2
MaxCreates == 2

CreateSchema ==
    LET number(e, n) == ShotgridField(e, n, "number", <<>>)
        text(e, n) == ShotgridField(e, n, "text", <<>>)
        shot == ShotgridEntity(nm.Shot, <<nm.id, nm.code, nm.sg_f>>,
                    (nm.id :> number(nm.Shot, nm.id)) @@ (nm.code :> text(nm.Shot, nm.code))
                    @@ (nm.sg_f :> ShotgridField(nm.Shot, nm.sg_f, "multi_entity",
                                                 <<nm.Asset, nm.Shot>>)),
                    TRUE)
        asset == ShotgridEntity(nm.Asset, <<nm.id, nm.code>>,
                     (nm.id :> number(nm.Asset, nm.id))
                     @@ (nm.code :> text(nm.Asset, nm.code)),
                     TRUE)
    IN resolve_connection([order |-> <<nm.Shot, nm.Asset>>,
                           ent |-> (nm.Shot :> shot) @@ (nm.Asset :> asset)],
                          <<nm.Shot, nm.sg_f>>)

\* fakegrid.py 171-183: the column of the connection row a link goes to, or
\* None when next() finds no field (StopIteration)
link_field(connection_entity, link_type) ==
    LET named == SelectSeq(connection_entity.forder,
                     LAMBDA n : Contains(connection_entity.fields[n].valid_types, link_type))
    IN IF snake_case(link_type) \in DOMAIN connection_entity.fields
       THEN snake_case(link_type)
       ELSE IF nm.linked_entity \in DOMAIN connection_entity.fields THEN nm.linked_entity
       ELSE IF named = <<>> THEN None
       ELSE named[1]

\* The dict {connection_field_name: this_entity, link_field: {...}} given to
\* from_dict and update_from_dict (models.py 128-175), as the columns it
\* sets: when the two keys are the same the dict holds the second alone.
link_dict(connection_field_name, this_entity, lf, link) ==
    (lf :> link) @@ (connection_field_name :> this_entity)

\* connection_model.from_dict(...): a new row, is_retired False by default
\* (models.py 190)
from_dict(connection_entity, d) ==
    [cols |-> [n \in {x \in DOMAIN connection_entity.fields :
                        connection_entity.fields[x].field_type = "entity"} |->
                 IF n \in DOMAIN d THEN d[n] ELSE None],
     is_retired |-> FALSE]

update_from_dict(r, d) ==
    [r EXCEPT !.cols = [n \in DOMAIN r.cols |-> IF n \in DOMAIN d THEN d[n] ELSE r.cols[n]]]

\* fakegrid.py 158-169: the rows of the connection table of this entity
\* that are not retired, as their positions in the table
existing_links(rows, connection_field_name, this_entity) ==
    SelectSeq([i \in 1..Len(rows) |-> i],
              LAMBDA i : rows[i].cols[connection_field_name] = this_entity /\ ~rows[i].is_retired)

\* fakegrid.py 173-222: the loop over new_links
RECURSIVE link_loop(_, _, _, _, _, _, _, _, _)
link_loop(connection_entity, connection_field_name, this_entity, existing, rows, new_links, i, used_links, added) ==
    IF i > Len(new_links) THEN [used |-> used_links, added |-> added, rows |-> rows]
    ELSE LET link == new_links[i]
             lf == link_field(connection_entity, link[1])
             previous == SelectSeq(existing, LAMBDA k : rows[k].cols[lf] = link)
             d == link_dict(connection_field_name, this_entity, lf, link)
         IN IF previous # <<>>
            THEN link_loop(connection_entity, connection_field_name, this_entity, existing,
                           [rows EXCEPT ![previous[1]] = update_from_dict(@, d)],
                           new_links, i + 1, Append(used_links, previous[1]), added)
            ELSE link_loop(connection_entity, connection_field_name, this_entity, existing,
                           rows, new_links, i + 1, used_links,
                           Append(added, from_dict(connection_entity, d)))

IntegrityError == "IntegrityError: UNIQUE constraint failed"

\* The id the flush gives the new row.
flushed_id(ids, d) ==
    IF d.id # 0 THEN d.id
    ELSE IF ids = <<>> THEN 1
    ELSE 1 + (CHOOSE m \in Range(ids) : \A x \in Range(ids) : x <= m)

\* create(entity_type, data) for the links of sg_f (fakegrid.py 142-232):
\* what it decided and the table it leaves
create(sch, entity_type, d, ids, rows) ==
    LET field_schema == FieldAt(sch, <<entity_type, nm.sg_f>>)
        connection_entity == sch.ent[field_schema.connection_entity[1]]
        connection_field_name == field_schema.connection_entity[2]
        this_entity == <<entity_type, d.id>>
        existing == existing_links(rows, connection_field_name, this_entity)
        r == link_loop(connection_entity, connection_field_name, this_entity, existing, rows,
                       d.sg_f, 1, <<>>, <<>>)
        to_delete == Range(existing) \ Range(r.used)
        left == SelectSeq([i \in 1..Len(rows) |-> i], LAMBDA i : i \notin to_delete)
    IN IF d.id # 0 /\ Contains(ids, d.id)
       THEN [ok |-> FALSE, err |-> IntegrityError, created |-> ids, rows |-> rows,
             this_entity |-> this_entity, before |-> rows, existing |-> <<>>,
             used |-> {}, to_delete |-> {}, added |-> <<>>]
       ELSE [ok |-> TRUE, err |-> "", created |-> Append(ids, flushed_id(ids, d)),
             rows |-> [n \in 1..Len(left) |-> r.rows[left[n]]] \o r.added,
             this_entity |-> this_entity, before |-> rows, existing |-> existing,
             used |-> Range(r.used), to_delete |-> to_delete, added |-> r.added]

\* The links create() is given.
Targets == {<<nm.Asset, 1>>, <<nm.Shot, 2>>}

RECURSIVE LinkLists(_)
LinkLists(n) ==
    IF n = 0 THEN {<<>>}
    ELSE LinkLists(n - 1) \cup {Append(l, t) : l \in LinkLists(n - 1), t \in Targets}

InitCreate ==
    /\ pc = "idle"
    /\ ftype = "text"
    /\ query = [field |-> <<>>, op |-> "", value |-> <<>>]
    /\ row = Row(1, NoCols)
    /\ db = <<>>
    /\ clk = <<TNow, TNow, TNow>>
    /\ now_fn = TNow
    /\ compiled = NotCompiled
    /\ matched = FALSE
    /\ fields = <<>>
    /\ retired_only = FALSE
    /\ result = <<>>
    /\ path = <<>>
    /\ field_path = NotCompiled
    /\ rpc = "idle"
    /\ raw = <<>>
    /\ schema = CreateSchema
    /\ warnings = {}
    /\ CreateIdle

\* fakegrid.py 75-232: one call of create("Shot", data)
Create ==
    /\ Len(created) < MaxCreates
    /\ \E id \in {0, 1}, l \in LinkLists(MaxNewLinks) :
           LET d == [id |-> id, sg_f |-> l]
               r == create(schema, nm.Shot, d, created, conn_rows)
           IN /\ data' = d
              /\ decision' = r
              /\ conn_rows' = r.rows
              /\ created' = r.created
    /\ UNCHANGED <<fvars, pvars, rvars>>

NextCreate == Create

SpecCreate == InitCreate /\ [][NextCreate]_vars

\* The link a connection row holds for the multi-entity field: its
\* linked_entity column.
target(r) == r.cols[nm.linked_entity]

\* C27: a create() that succeeds keeps the existing rows whose target is
\* among the new links and deletes the others, inserts one row per new
\* target that had no row, and leaves, for the entity and field, exactly
\* one row per distinct target of the new links.
C27_CreateReconcilesLinks ==
    (decision # <<>> /\ decision.ok) =>
        LET L == Range(data.sg_f)
            X == Range(decision.existing)
            before == decision.before
            mine == {i \in 1..Len(conn_rows) :
                        /\ conn_rows[i].cols[nm.shot] = decision.this_entity
                        /\ ~conn_rows[i].is_retired}
        IN /\ decision.used = {i \in X : target(before[i]) \in L}
           /\ decision.to_delete = {i \in X : target(before[i]) \notin L}
           /\ decision.used \cap decision.to_delete = {}
           /\ \A t \in L :
                  (\A i \in X : target(before[i]) # t)
                      => Cardinality({n \in 1..Len(decision.added) :
                                         target(decision.added[n]) = t}) = 1
           /\ \A t \in L : Cardinality({i \in mine : target(conn_rows[i]) = t}) = 1
           /\ \A i \in mine : target(conn_rows[i]) \in L

====
